---- MODULE Spec2Model ----
(***************************************************************************)
(* Model of muteme-btn-control: the button state machine                   *)
(* (core/state.py), the LED feedback controller (core/led_feedback.py),    *)
(* the HID device wrapper (hid/device.py) and the asyncio daemon           *)
(* (core/daemon.py).                                                       *)
(*                                                                         *)
(* Timestamps are integers in milliseconds; NoTime stands for None.        *)
(* Logging calls are not modelled.  state_entry_time is written by the     *)
(* state machine but read only by get_state_info, and is left out.         *)
(***************************************************************************)
EXTENDS Integers, Sequences, FiniteSets, TLC

\* ------------------------------------------------------------------ bounds
\* number of clock advances explored
MaxTicks == 3
\* number of samples fed directly to process_event in SpecSM
MaxEvents == 4
\* number of coroutines (start() or stop() calls) alive at the same time
NTasks == 2
\* number of clock advances explored while the daemon runs
MaxDaemonTicks == 1
\* number of adverse things the environment does to the daemon (unplugging,
\* audio server outages, failed requests, mute changes by others)
MaxFaults == 1
\* number of start(), stop() and cancel() calls made on the daemon
MaxCalls == 3
\* number of complete taps fed to process_event in SpecTaps
MaxTaps == 4

\* amounts by which the clock advances between two samples
Deltas == {5, 45, 50, 150}

\* ------------------------------------------------------- program constants
DoubleTapTimeoutMs == 300
DebounceTimeMs == 10

NoTime == -1

\* read_events got no report (nothing within the timeout, or a short one)
NoReport == -1

VARIABLES
    current_state,    \* ButtonStateMachine.current_state: "idle" | "pressed"
    press_count,      \* ButtonStateMachine.press_count
    last_press_time,  \* ButtonStateMachine.last_press_time, NoTime for None
    now,              \* wall clock (ms)
    ticks,            \* number of clock advances so far
    hist,             \* samples fed to process_event since the last reset()
    outs,             \* the action list returned for each sample of hist
    prevSm,           \* the machine as it was before the last sample
    accepted,         \* number of IDLE -> PRESSED transitions since reset()
    lastAware,        \* last_press_time is an offset-aware datetime
    smOutcome,        \* how the last process_event call ended: "returned",
                      \* "reset" (a handler raised and the call returned) or
                      \* "raised" (the error reached the caller)
    running,          \* MuteMeDaemon.running
    shutdown_event,   \* MuteMeDaemon._shutdown_event is set
    pc,               \* where each start()/stop() coroutine stands
    device_connected, \* start()'s local device_connected, per coroutine
    patIdx,           \* _show_startup_pattern: colours shown so far, per coroutine
    device,           \* MuteMeDaemon.device: "none" (None), "closed" (an object
                      \* whose _device is None), "live" or "dead" (an open
                      \* handle whose hardware is unplugged)
    led_controller,   \* MuteMeDaemon.led_controller: "none", "current" (holds
                      \* the object self.device names) or "stale" (holds an
                      \* object self.device no longer names)
    plugged,          \* a MuteMe button is on the bus
    muted,            \* the audio collaborator's mute status
    audioUp,          \* the audio server is reachable
    audioClosed,      \* close() was called on the audio collaborator
    audio_backend,    \* class of MuteMeDaemon.audio_backend
    ledReport,        \* last LED report the hardware accepted, <<>> if none
    callLog,          \* collaborator calls made by the last daemon step
    signalled,        \* the signal handler ran while running was true, in
                      \* the current run
    faults,           \* number of adverse environment events so far
    calls,            \* number of start(), stop() and cancel() calls so far
    stopRequested,    \* stop() passed its guard, in the current run
    cyclesOdd,        \* an odd number of releases were processed while PRESSED
    toggleFailed,     \* is_muted has failed in the dispatch of a toggle
    seen              \* what callers have seen of the calls made so far:
                      \*   readReport: the bytes the transport returned to
                      \*     the last read_events
                      \*   samples: what the last read_events call returned
                      \*   lastOp: the last call made, with its arguments
                      \*   hidLog: the calls that call issued on the hid
                      \*     handle (or the connect calls it made), in order
                      \*   opResult: how it ended, "returned" or "DeviceError"
                      \*   handleCloses: close() calls issued on the current
                      \*     hid handle
                      \*   found: the list discover_devices last returned
                      \*   raisedMsgs: the messages the error last raised
                      \*     carries
                      \*   muteLog: the mute status after each sample of hist
                      \*     that _process_button_events dispatched
                      \*   lock: the coroutine that holds
                      \*     MuteMeDaemon._running_lock, 0 when it is free

smVars == <<current_state, press_count, last_press_time>>
obsVars == <<hist, outs, prevSm, accepted, lastAware, smOutcome>>
clockVars == <<now, ticks>>
daemonVars == <<running, shutdown_event, pc, device_connected, patIdx, device,
                led_controller, plugged, muted, audioUp, audioClosed,
                ledReport, callLog, signalled, faults, calls, stopRequested,
                cyclesOdd, audio_backend, toggleFailed, seen>>
vars == <<current_state, press_count, last_press_time, now, ticks, hist, outs,
          prevSm, accepted, lastAware, smOutcome,
          running, shutdown_event, pc, device_connected,
          patIdx, device, led_controller, plugged, muted, audioUp, audioClosed,
          ledReport, callLog, signalled, faults, calls, stopRequested,
          cyclesOdd, audio_backend, toggleFailed, seen>>

\* ------------------------------------------------- ButtonStateMachine
Tasks == 1..NTasks

Machine(st, cnt, last) == [state |-> st, count |-> cnt, last |-> last]

InitialMachine == Machine("idle", 0, NoTime)

Sm == Machine(current_state, press_count, last_press_time)

Event(type, ts) == [type |-> type, ts |-> ts]

Result(m, acts) == [sm |-> m, actions |-> acts]

\* slip: the debounce check is made only while IDLE
ShouldDebounceEvent_IdleOnly(m, ev) ==
    /\ ev.type = "press"
    /\ m.state = "idle"
    /\ m.last # NoTime
    /\ (ev.ts - m.last) < DebounceTimeMs

\* slip: a debounce time of zero, nothing is ever dropped
ShouldDebounceEvent_NoWindow(m, ev) ==
    IF ev.type # "press" THEN FALSE
    ELSE IF m.last = NoTime THEN FALSE
    ELSE (ev.ts - m.last) < 0

\* _should_debounce_event
ShouldDebounceEvent(m, ev) ==
    IF ev.type # "press" THEN FALSE
    ELSE IF m.last = NoTime THEN FALSE
    ELSE (ev.ts - m.last) < DebounceTimeMs

\* slip: the window ends at double_tap_timeout_ms, not after it
ShouldTimeout_AtWindow(m, t) ==
    IF m.last = NoTime THEN FALSE
    ELSE (t - m.last) >= DoubleTapTimeoutMs

\* _should_timeout
ShouldTimeout(m, t) ==
    IF m.last = NoTime THEN FALSE
    ELSE (t - m.last) > DoubleTapTimeoutMs

\* slip: the timeout clears the count and keeps last_press_time
ResetPressCount_CountOnly(m) == [m EXCEPT !.count = 0]

\* _reset_press_count
ResetPressCount(m) == [m EXCEPT !.count = 0, !.last = NoTime]

\* slip: a release while IDLE is answered with a toggle
HandleIdleState_ToggleOnRelease(m, ev) ==
    IF ev.type = "press" THEN
        Result([state |-> "pressed",
                count |-> IF m.last # NoTime /\ (ev.ts - m.last) <= DoubleTapTimeoutMs
                          THEN m.count + 1 ELSE 1,
                last |-> ev.ts], <<>>)
    ELSE IF ev.type = "timeout" THEN
        Result(IF ShouldTimeout(m, ev.ts) THEN ResetPressCount(m) ELSE m, <<>>)
    ELSE Result(m, <<"toggle">>)

\* slip: IDLE compares with < as PRESSED does
HandleIdleState_StrictWindow(m, ev) ==
    IF ev.type = "press" THEN
        Result([state |-> "pressed",
                count |-> IF m.last # NoTime /\ (ev.ts - m.last) < DoubleTapTimeoutMs
                          THEN m.count + 1 ELSE 1,
                last |-> ev.ts], <<>>)
    ELSE IF ev.type = "timeout" THEN
        Result(IF ShouldTimeout(m, ev.ts) THEN ResetPressCount(m) ELSE m, <<>>)
    ELSE Result(m, <<>>)

\* _handle_idle_state
HandleIdleState(m, ev) ==
    IF ev.type = "press" THEN
        Result([state |-> "pressed",
                count |-> IF m.last # NoTime /\ (ev.ts - m.last) <= DoubleTapTimeoutMs
                          THEN m.count + 1 ELSE 1,
                last |-> ev.ts], <<>>)
    ELSE IF ev.type = "timeout" THEN
        Result(IF ShouldTimeout(m, ev.ts) THEN ResetPressCount(m) ELSE m, <<>>)
    ELSE Result(m, <<>>)

\* slip: the double tap keeps last_press_time
HandlePressedState_KeepLast(m, ev) ==
    IF ev.type = "release" THEN
        IF m.count >= 2
        THEN Result(Machine("idle", 0, m.last), <<"toggle", "double_tap">>)
        ELSE Result([m EXCEPT !.state = "idle"], <<"toggle">>)
    ELSE IF ev.type = "press" THEN
        IF m.last # NoTime /\ (ev.ts - m.last) < DoubleTapTimeoutMs
        THEN Result([m EXCEPT !.count = m.count + 1, !.last = ev.ts], <<>>)
        ELSE Result([m EXCEPT !.count = 1, !.last = ev.ts], <<>>)
    ELSE Result(m, <<>>)

\* _handle_pressed_state
HandlePressedState(m, ev) ==
    IF ev.type = "release" THEN
        IF m.count >= 2
        THEN Result(Machine("idle", 0, NoTime), <<"toggle", "double_tap">>)
        ELSE Result([m EXCEPT !.state = "idle"], <<"toggle">>)
    ELSE IF ev.type = "press" THEN
        IF m.last # NoTime /\ (ev.ts - m.last) < DoubleTapTimeoutMs
        THEN Result([m EXCEPT !.count = m.count + 1, !.last = ev.ts], <<>>)
        ELSE Result([m EXCEPT !.count = 1, !.last = ev.ts], <<>>)
    ELSE Result(m, <<>>)

\* process_event
ProcessEvent(m, ev) ==
    IF ShouldDebounceEvent(m, ev) THEN Result(m, <<>>)
    ELSE IF m.state = "idle" THEN HandleIdleState(m, ev)
    ELSE HandlePressedState(m, ev)

\* slip: reset() leaves the press count
Reset_KeepCount == [InitialMachine EXCEPT !.count = press_count]

\* reset
Reset == InitialMachine

\* event.timestamp - self.last_press_time: subtracting an offset-aware
\* datetime from a naive one, or a naive one from an aware one, raises
\* TypeError
SubtractRaises(m, lastAw, aware) == m.last # NoTime /\ aware # lastAw

\* process_event: _should_debounce_event raises (it is called before the try)
DebounceRaises(m, lastAw, ev, aware) ==
    ev.type = "press" /\ SubtractRaises(m, lastAw, aware)

\* process_event: the state handler raises inside the try
HandlerRaises(m, lastAw, ev, aware) ==
    /\ SubtractRaises(m, lastAw, aware)
    /\ \/ ev.type = "press"
       \/ ev.type = "timeout" /\ m.state = "idle"

Ended(m, lastAw, acts, how) ==
    [sm |-> m, aware |-> lastAw, actions |-> acts, outcome |-> how]

\* process_event on a sample whose timestamp is naive or offset-aware
ProcessEventCall(m, lastAw, ev, aware) ==
    IF DebounceRaises(m, lastAw, ev, aware)
    THEN Ended(m, lastAw, <<>>, "raised")
    ELSE IF HandlerRaises(m, lastAw, ev, aware)
    THEN Ended(Reset, FALSE, <<>>, "reset")
    ELSE LET r == ProcessEvent(m, ev) IN
         Ended(r.sm,
               IF r.sm.last = NoTime THEN FALSE
               ELSE IF ev.type = "press" /\ ~ShouldDebounceEvent(m, ev)
               THEN aware ELSE lastAw,
               r.actions, "returned")

\* ------------------------------------------------------------ helpers
Count(s, x) == Cardinality({i \in DOMAIN s : s[i] = x})

Has(s, x) == \E i \in DOMAIN s : s[i] = x

RECURSIVE TotalCount(_, _)
TotalCount(ss, x) ==
    IF ss = <<>> THEN 0 ELSE Count(Head(ss), x) + TotalCount(Tail(ss), x)

\* the machine processes one sample and the observation variables record it
Feed(ev) ==
    LET r == ProcessEvent(Sm, ev) IN
    /\ current_state' = r.sm.state
    /\ press_count' = r.sm.count
    /\ last_press_time' = r.sm.last
    /\ hist' = Append(hist, ev)
    /\ outs' = Append(outs, r.actions)
    /\ prevSm' = Sm
    /\ accepted' = IF Sm.state = "idle" /\ r.sm.state = "pressed"
                   THEN accepted + 1 ELSE accepted
    /\ UNCHANGED <<lastAware, smOutcome>>

\* a call on a MuteMeDevice and its arguments ("" where it has none)
Op(name, color, feature, fmt, brightness) ==
    [op |-> name, color |-> color, feature |-> feature, fmt |-> fmt,
     brightness |-> brightness]

NoOp == Op("", "", FALSE, "", "")

\* no call has been made
Unseen ==
    [lastOp |-> NoOp, hidLog |-> <<>>, opResult |-> "returned",
     handleCloses |-> 0, readReport |-> <<>>, samples |-> <<>>,
     found |-> <<>>, raisedMsgs |-> {}, muteLog |-> <<>>, lock |-> 0]

\* ------------------------------------------- SpecSM: the machine alone
\* ButtonStateMachine.__init__
InitMachine ==
    /\ current_state = "idle"
    /\ press_count = 0
    /\ last_press_time = NoTime
    /\ now = 0
    /\ ticks = 0
    /\ hist = <<>>
    /\ outs = <<>>
    /\ prevSm = InitialMachine
    /\ accepted = 0
    /\ lastAware = FALSE
    /\ smOutcome = "returned"

InitSM ==
    /\ InitMachine
    /\ running = FALSE
    /\ shutdown_event = FALSE
    /\ pc = [t \in Tasks |-> "idle"]
    /\ device_connected = [t \in Tasks |-> FALSE]
    /\ patIdx = [t \in Tasks |-> 0]
    /\ device = "none"
    /\ led_controller = "none"
    /\ plugged = TRUE
    /\ muted = FALSE
    /\ audioUp = TRUE
    /\ audioClosed = FALSE
    /\ ledReport = <<>>
    /\ callLog = <<>>
    /\ signalled = FALSE
    /\ faults = 0
    /\ calls = 0
    /\ stopRequested = FALSE
    /\ cyclesOdd = FALSE
    /\ audio_backend = "PulseAudioBackend"
    /\ toggleFailed = FALSE
    /\ seen = Unseen

SMPress ==
    /\ Len(hist) < MaxEvents
    /\ Feed(Event("press", now))
    /\ UNCHANGED <<now, ticks, daemonVars>>

SMRelease ==
    /\ Len(hist) < MaxEvents
    /\ Feed(Event("release", now))
    /\ UNCHANGED <<now, ticks, daemonVars>>

SMTimeout ==
    /\ Len(hist) < MaxEvents
    /\ Feed(Event("timeout", now))
    /\ UNCHANGED <<now, ticks, daemonVars>>

SMReset ==
    /\ hist # <<>>
    /\ current_state' = Reset.state
    /\ press_count' = Reset.count
    /\ last_press_time' = Reset.last
    /\ hist' = <<>>
    /\ outs' = <<>>
    /\ prevSm' = InitialMachine
    /\ accepted' = 0
    /\ lastAware' = FALSE
    /\ UNCHANGED smOutcome
    /\ UNCHANGED <<now, ticks, daemonVars>>

Tick ==
    /\ ticks < MaxTicks
    /\ \E d \in Deltas : now' = now + d
    /\ ticks' = ticks + 1
    /\ UNCHANGED <<smVars, obsVars, daemonVars>>

\* ----------------- SpecSMErr: the machine alone, any datetime as timestamp
SampleTypes == {"press", "release", "timeout"}

\* a process_event call and what the caller sees of it
SMCall ==
    /\ Len(hist) < MaxEvents
    /\ \E type \in SampleTypes, aware \in BOOLEAN :
         LET ev == Event(type, now)
             r == ProcessEventCall(Sm, lastAware, ev, aware) IN
         /\ current_state' = r.sm.state
         /\ press_count' = r.sm.count
         /\ last_press_time' = r.sm.last
         /\ lastAware' = r.aware
         /\ smOutcome' = r.outcome
         /\ hist' = Append(hist, ev)
         /\ outs' = Append(outs, r.actions)
         /\ prevSm' = Sm
         /\ accepted' = IF Sm.state = "idle" /\ r.sm.state = "pressed"
                        THEN accepted + 1 ELSE accepted
    /\ UNCHANGED <<now, ticks, daemonVars>>

\* time between two calls: inside the double-tap window or beyond it
TickCoarse ==
    /\ ticks < MaxTicks
    /\ \E d \in {150, 400} : now' = now + d
    /\ ticks' = ticks + 1
    /\ UNCHANGED <<smVars, obsVars, daemonVars>>

NextSMErr == SMCall \/ SMReset \/ TickCoarse

SpecSMErr == InitSM /\ [][NextSMErr]_vars

\* SpecTaps: complete taps; a press some time after the previous press,
\* then its release after a hold, each through process_event
Tap ==
    /\ Len(hist) < 2 * MaxTaps
    /\ \E gap \in {5, 10, 150, 300, 400}, hold \in {0, 5} :
         LET press == Event("press", now + gap)
             p == ProcessEvent(Sm, press)
             release == Event("release", now + gap + hold)
             r == ProcessEvent(p.sm, release)
         IN  /\ now' = now + gap
             /\ current_state' = r.sm.state
             /\ press_count' = r.sm.count
             /\ last_press_time' = r.sm.last
             /\ hist' = hist \o <<press, release>>
             /\ outs' = outs \o <<p.actions, r.actions>>
             /\ prevSm' = p.sm
             /\ accepted' = IF Sm.state = "idle" /\ p.sm.state = "pressed"
                            THEN accepted + 1 ELSE accepted
    /\ UNCHANGED <<ticks, lastAware, smOutcome, daemonVars>>

SpecTaps == InitSM /\ [][Tap]_vars

NextSM == SMPress \/ SMRelease \/ SMTimeout \/ SMReset \/ Tick

SpecSM == InitSM /\ [][NextSM]_vars

\* ------------------------------------------------------- hid/device.py
\* LEDColor
LEDColorValue(c) ==
    CASE c = "NOCOLOR" -> 0
      [] c = "RED" -> 1
      [] c = "GREEN" -> 2
      [] c = "YELLOW" -> 3
      [] c = "BLUE" -> 4
      [] c = "PURPLE" -> 5
      [] c = "CYAN" -> 6
      [] c = "WHITE" -> 7

\* slip: report_id_0 leaves out the report id
BuildReport_BareFallback(report_format, raw_value) ==
    IF report_format = "report_id_0" THEN <<raw_value>>
    ELSE IF report_format = "no_report_id" THEN <<raw_value>>
    ELSE IF report_format = "report_id_2" THEN <<2, raw_value>>
    ELSE IF report_format = "padded" THEN <<1, raw_value, 0, 0, 0, 0, 0, 0>>
    ELSE <<1, raw_value>>

\* set_led_color._build_report
BuildReport(report_format, raw_value) ==
    IF report_format = "no_report_id" THEN <<raw_value>>
    ELSE IF report_format = "report_id_0" THEN <<0, raw_value>>
    ELSE IF report_format = "report_id_2" THEN <<2, raw_value>>
    ELSE IF report_format = "padded" THEN <<1, raw_value, 0, 0, 0, 0, 0, 0>>
    ELSE <<1, raw_value>>

\* is_connected, for the states a device reference can be in
IsConnected(dev) == dev \in {"live", "dead"}

\* set_led_color with its default arguments: the report the hardware shows
\* afterwards and whether the call returned (TRUE) or raised DeviceError
SetLedColor(dev, color, shown) ==
    IF dev = "live"
    THEN [ok |-> TRUE, report |-> BuildReport("report_id_0", LEDColorValue(color))]
    ELSE [ok |-> FALSE, report |-> shown]


\* read_events: report is NoReport (no data within the timeout) or the value
\* of byte 3 of a 4-byte report; the result is the list of sample kinds
ReadEvents(dev, report) ==
    IF ~IsConnected(dev) THEN <<>>
    ELSE IF dev = "dead" THEN <<>>
    ELSE IF report = NoReport THEN <<>>
    ELSE IF report = 1 THEN <<"press">>
    ELSE <<"release">>

\* the values of a report byte: 0x00, 0x01 and another one
ByteVals == {0, 1, 2}

\* read_events: self.read(size=4, timeout_ms=10)
ReportSize == 4

\* what the transport returns to a read of ReportSize bytes: nothing within
\* the timeout, a short report or a whole one
HidReads == UNION {[1..n -> ByteVals] : n \in 0..ReportSize}

\* read_events on the bytes the transport returns (byte index 3 is the
\* fourth byte)
ReadEventsFrom(dev, data) ==
    ReadEvents(dev, IF Len(data) >= 4 THEN data[4] ELSE NoReport)

\* a call on the hid handle and the bytes handed to it
HidCall(name, bytes) == [call |-> name, bytes |-> bytes]

\* what a MuteMeDevice call did: the handle calls it issued, whether it raised
\* DeviceError, and the state of the object afterwards
Done(hid, raised, dev) ==
    [hid |-> hid, result |-> IF raised THEN "DeviceError" ELSE "returned",
     dev |-> dev]

\* a | b on bytes
RECURSIVE BitOr(_, _)
BitOr(a, b) ==
    IF a = 0 THEN b
    ELSE IF b = 0 THEN a
    ELSE (IF a % 2 = 1 \/ b % 2 = 1 THEN 1 ELSE 0)
             + 2 * BitOr(a \div 2, b \div 2)

\* slip: slow_pulse takes the offset of fast_pulse
ColorCode_PulseMixed(color, brightness) ==
    IF brightness = "dim" THEN BitOr(LEDColorValue(color), 16)
    ELSE IF brightness \in {"fast_pulse", "slow_pulse"}
    THEN BitOr(LEDColorValue(color), 32)
    ELSE LEDColorValue(color)

\* set_led_color: color_value for the brightness levels written in one report
ColorCode(color, brightness) ==
    IF brightness = "dim" THEN BitOr(LEDColorValue(color), 16)
    ELSE IF brightness = "fast_pulse"
    THEN BitOr(LEDColorValue(color), 32)
    ELSE IF brightness = "slow_pulse"
    THEN BitOr(LEDColorValue(color), 48)
    ELSE LEDColorValue(color)

\* set_led_color._send_report: the handle call that carries a report
SendReport(feature, report) ==
    HidCall(IF feature THEN "send_feature_report" ELSE "write", report)

\* set_led_color: flash_cycles
FlashCycles == 20

\* set_led_color, brightness "flashing": the reports it sends when no write
\* fails, flash_cycles times on and off and the colour once more
RECURSIVE FlashFrames(_, _, _, _)
FlashFrames(n, color, feature, fmt) ==
    IF n = 0
    THEN <<SendReport(feature, BuildReport(fmt, LEDColorValue(color)))>>
    ELSE <<SendReport(feature, BuildReport(fmt, LEDColorValue(color))),
           SendReport(feature, BuildReport(fmt, LEDColorValue("NOCOLOR")))>>
             \o FlashFrames(n - 1, color, feature, fmt)

\* slip: the flashing sequence ends after its last off report
SetLedColorCall_EndsDark(dev, color, feature, fmt, brightness, failAt) ==
    IF ~IsConnected(dev) THEN Done(<<>>, TRUE, dev)
    ELSE LET frames == IF brightness = "flashing"
                       THEN SubSeq(FlashFrames(FlashCycles, color, feature, fmt),
                                   1, 2 * FlashCycles)
                       ELSE <<SendReport(feature,
                                  BuildReport(fmt, ColorCode(color, brightness)))>>
             k == IF dev = "dead" THEN 1 ELSE failAt
         IN  IF k = 0 \/ k > Len(frames)
             THEN Done(frames, FALSE, dev)
             ELSE Done(SubSeq(frames, 1, k), TRUE, "dead")

\* set_led_color; failAt is the frame at which the hardware stops answering
\* (0: it answers throughout): that write raises and ends the call
SetLedColorCall(dev, color, feature, fmt, brightness, failAt) ==
    IF ~IsConnected(dev) THEN Done(<<>>, TRUE, dev)
    ELSE LET frames == IF brightness = "flashing"
                       THEN FlashFrames(FlashCycles, color, feature, fmt)
                       ELSE <<SendReport(feature,
                                  BuildReport(fmt, ColorCode(color, brightness)))>>
             k == IF dev = "dead" THEN 1 ELSE failAt
         IN  IF k = 0 \/ k > Len(frames)
             THEN Done(frames, FALSE, dev)
             ELSE Done(SubSeq(frames, 1, k), TRUE, "dead")

\* read
ReadCall(dev) ==
    IF ~IsConnected(dev) THEN Done(<<>>, TRUE, dev)
    ELSE Done(<<HidCall("read", <<>>)>>, dev = "dead", dev)

\* slip: write goes to the handle without asking is_connected
WriteCall_NoCheck(dev, data) ==
    Done(<<HidCall("write", data)>>, dev # "live", dev)

\* write
WriteCall(dev, data) ==
    IF ~IsConnected(dev) THEN Done(<<>>, TRUE, dev)
    ELSE Done(<<HidCall("write", data)>>, dev = "dead", dev)

\* read_events: the handle calls it issues; it never raises
ReadEventsCall(dev) ==
    IF ~IsConnected(dev) THEN Done(<<>>, FALSE, dev)
    ELSE Done(ReadCall(dev).hid, FALSE, dev)

\* slip: the handle is kept when closing it fails
DisconnectCall_KeepOnError(dev, closeFails) ==
    IF ~IsConnected(dev) THEN Done(<<>>, FALSE, dev)
    ELSE Done(<<HidCall(IF closeFails THEN "close_failed" ELSE "close", <<>>)>>,
              FALSE, IF closeFails THEN dev ELSE "closed")

\* disconnect; closeFails tells whether the handle's close() raises
DisconnectCall(dev, closeFails) ==
    IF ~IsConnected(dev) THEN Done(<<>>, FALSE, dev)
    ELSE Done(<<HidCall(IF closeFails THEN "close_failed" ELSE "close", <<>>)>>,
              FALSE, "closed")

\* disconnect
Disconnect(dev) == IF dev = "none" THEN "none" ELSE "closed"

\* ---------------------------------------------------- audio collaborator
\* is_muted / set_mute_state return only while the server is reachable and
\* the handle has not been closed
AudioOk == audioUp /\ ~audioClosed

\* the collaborator is the PulseAudioBackend the daemon constructs by default
\* or an object injected through the audio_backend parameter whose is_muted
\* has an optional argument (tests/test_integration_e2e.py)
AudioBackends == {"PulseAudioBackend", "MockAudioBackend"}

\* is_muted() called with no argument: PulseAudioBackend.is_muted requires
\* source_name, so the call raises TypeError
IsMutedNoArg == AudioOk /\ audio_backend # "PulseAudioBackend"

\* -------------------------------------------------- core/led_feedback.py
MutedColor == "RED"
UnmutedColor == "GREEN"

ColorFor(m) == IF m THEN MutedColor ELSE UnmutedColor

\* the device object the LED controller holds
ControllerDevice(dev, ctl) == IF ctl = "current" THEN dev ELSE "closed"

Outcome(log, report) == [log |-> log, report |-> report]

\* slip: the colour mapping is inverted
UpdateLedToMuteStatus_Inverted(ctlDev, m, shown) ==
    IF ~IsConnected(ctlDev) THEN Outcome(<<"led_sync">>, shown)
    ELSE IF ~IsMutedNoArg THEN Outcome(<<"led_sync", "led.is_muted_failed">>, shown)
    ELSE LET w == SetLedColor(ctlDev, ColorFor(~m), shown) IN
         Outcome(<<"led_sync", "led.is_muted",
                   IF w.ok THEN "led_write" ELSE "led_write_failed">>, w.report)

\* update_led_to_mute_status, m being what is_muted() returns
UpdateLedToMuteStatus(ctlDev, m, shown) ==
    IF ~IsConnected(ctlDev) THEN Outcome(<<"led_sync">>, shown)
    ELSE IF ~IsMutedNoArg THEN Outcome(<<"led_sync", "led.is_muted_failed">>, shown)
    ELSE LET w == SetLedColor(ctlDev, ColorFor(m), shown) IN
         Outcome(<<"led_sync", "led.is_muted",
                   IF w.ok THEN "led_write" ELSE "led_write_failed">>, w.report)

\* slip: force_led_color writes without asking is_connected
ForceLedColor_NoCheck(ctlDev, color, shown) ==
    LET w == SetLedColor(ctlDev, color, shown) IN
    Outcome(<<"led_force", IF w.ok THEN "led_write" ELSE "led_write_failed">>,
            w.report)

\* force_led_color
ForceLedColor(ctlDev, color, shown) ==
    IF ~IsConnected(ctlDev) THEN Outcome(<<"led_force">>, shown)
    ELSE LET w == SetLedColor(ctlDev, color, shown) IN
         Outcome(<<"led_force", IF w.ok THEN "led_write" ELSE "led_write_failed">>,
                 w.report)

\* ------------------------------------------------------ core/daemon.py
\* the coroutine is parked at an await that suspends it
Suspended == {"idle", "s_connsleep", "s_pat_onsleep", "s_pat_offsleep",
              "s_pat_endsleep", "s_sleep", "p_sleep"}

StartPcs == {"s_clear", "s_connect", "s_connsleep", "s_ledctl", "s_pattern",
             "s_pat_on", "s_pat_onsleep", "s_pat_off", "s_pat_offsleep",
             "s_pat_endsleep", "s_initled", "s_loophead", "s_events", "s_led",
             "s_sleep", "s_except", "s_finally"}

LoopPcs == {"s_loophead", "s_events", "s_led", "s_sleep"}

\* asyncio runs one coroutine at a time, from one await to the next
CanRun(t) == pc[t] \in Suspended => \A u \in Tasks \ {t} : pc[u] \in Suspended

Goto(t, l) == pc' = [pc EXCEPT ![t] = l]

\* _show_startup_pattern: colors and repeats
StartupColors == <<"BLUE", "GREEN", "RED">>
StartupRepeats == 3

\* _update_led_feedback
UpdateLedFeedbackCall(dev, ctl, m, shown) ==
    IF ~IsConnected(dev) THEN Outcome(<<>>, shown)
    ELSE IF ctl = "none" THEN Outcome(<<>>, shown)
    ELSE UpdateLedToMuteStatus(ControllerDevice(dev, ctl), m, shown)

daemonFrame == <<smVars, obsVars, clockVars, faults>>

Called ==
    /\ calls < MaxCalls
    /\ calls' = calls + 1

\* _signal_handler
SignalHandler ==
    /\ UNCHANGED <<stopRequested, cyclesOdd>>
    /\ UNCHANGED <<calls, audio_backend, toggleFailed, seen>>
    /\ shutdown_event' = TRUE
    /\ signalled' = (signalled \/ running)
    /\ UNCHANGED <<daemonFrame, running, pc, device_connected, patIdx, device,
                   led_controller, plugged, muted, audioUp, audioClosed,
                   ledReport, callLog>>

\* slip: start() without the already-running guard
CallStart_NoGuard(t) ==
    /\ UNCHANGED <<stopRequested, cyclesOdd>>
    /\ Called
    /\ UNCHANGED <<audio_backend, toggleFailed, seen>>
    /\ pc[t] = "idle"
    /\ CanRun(t)
    /\ running' = TRUE
    /\ Goto(t, "s_clear")
    /\ device_connected' = [device_connected EXCEPT ![t] = FALSE]
    /\ callLog' = <<"start">>
    /\ UNCHANGED <<daemonFrame, shutdown_event, patIdx, device, led_controller,
                   plugged, muted, audioUp, audioClosed, ledReport, signalled>>

\* start: the already-running guard
CallStart(t) ==
    /\ UNCHANGED <<stopRequested, cyclesOdd>>
    /\ Called
    /\ UNCHANGED <<audio_backend, toggleFailed, seen>>
    /\ pc[t] = "idle"
    /\ CanRun(t)
    /\ IF running
       THEN /\ callLog' = <<"start_rejected">>
            /\ UNCHANGED <<running, pc, device_connected>>
       ELSE /\ running' = TRUE
            /\ Goto(t, "s_clear")
            /\ device_connected' = [device_connected EXCEPT ![t] = FALSE]
            /\ callLog' = <<"start">>
    /\ UNCHANGED <<daemonFrame, shutdown_event, patIdx, device, led_controller,
                   plugged, muted, audioUp, audioClosed, ledReport, signalled>>

\* start: self._shutdown_event.clear()
StartClear(t) ==
    /\ UNCHANGED <<stopRequested, cyclesOdd>>
    /\ UNCHANGED <<calls, audio_backend, toggleFailed, seen>>
    /\ pc[t] = "s_clear"
    /\ shutdown_event' = FALSE
    /\ Goto(t, "s_connect")
    /\ UNCHANGED <<daemonFrame, running, device_connected, patIdx, device,
                   led_controller, plugged, muted, audioUp, audioClosed,
                   ledReport, callLog, signalled>>

\* start: connect if there is no connected device; _connect_device
StartConnect(t) ==
    /\ UNCHANGED <<stopRequested, cyclesOdd>>
    /\ UNCHANGED <<calls, audio_backend, toggleFailed, seen>>
    /\ pc[t] = "s_connect"
    /\ IF ~IsConnected(device)
       THEN IF ~plugged
            THEN /\ Goto(t, "s_except")
                 /\ callLog' = <<"discover">>
                 /\ UNCHANGED <<device, led_controller, device_connected>>
            ELSE \E byIds \in BOOLEAN, byPath \in BOOLEAN :
                 IF byIds \/ byPath
                 THEN /\ device' = "live"
                      /\ led_controller' =
                             IF led_controller = "current" THEN "stale"
                             ELSE led_controller
                      /\ device_connected' = [device_connected EXCEPT ![t] = TRUE]
                      /\ Goto(t, "s_connsleep")
                      /\ callLog' = IF byIds
                                    THEN <<"discover", "connect_by_vid_pid">>
                                    ELSE <<"discover", "connect_by_vid_pid_failed",
                                           "connect">>
                 ELSE /\ Goto(t, "s_except")
                      /\ callLog' = <<"discover", "connect_by_vid_pid_failed",
                                      "connect_failed">>
                      /\ UNCHANGED <<device, led_controller, device_connected>>
       ELSE /\ Goto(t, "s_ledctl")
            /\ UNCHANGED <<device, led_controller, device_connected, callLog>>
    /\ UNCHANGED <<daemonFrame, running, shutdown_event, patIdx, plugged, muted,
                   audioUp, audioClosed, ledReport, signalled>>

\* start: await asyncio.sleep(0.1) after connecting
StartConnSleep(t) ==
    /\ UNCHANGED <<stopRequested, cyclesOdd>>
    /\ UNCHANGED <<calls, audio_backend, toggleFailed, seen>>
    /\ pc[t] = "s_connsleep"
    /\ CanRun(t)
    /\ Goto(t, "s_ledctl")
    /\ UNCHANGED <<daemonFrame, running, shutdown_event, device_connected,
                   patIdx, device, led_controller, plugged, muted, audioUp,
                   audioClosed, ledReport, callLog, signalled>>

\* start: create the LED controller if there is none
StartLedCtl(t) ==
    /\ UNCHANGED <<stopRequested, cyclesOdd>>
    /\ UNCHANGED <<calls, audio_backend, toggleFailed, seen>>
    /\ pc[t] = "s_ledctl"
    /\ IF led_controller = "none"
       THEN IF device = "none"
            THEN Goto(t, "s_except") /\ UNCHANGED led_controller
            ELSE Goto(t, "s_pattern") /\ led_controller' = "current"
       ELSE Goto(t, "s_pattern") /\ UNCHANGED led_controller
    /\ UNCHANGED <<daemonFrame, running, shutdown_event, device_connected,
                   patIdx, device, plugged, muted, audioUp, audioClosed,
                   ledReport, callLog, signalled>>

\* _show_startup_pattern: the connection check
StartPattern(t) ==
    /\ UNCHANGED <<stopRequested, cyclesOdd>>
    /\ UNCHANGED <<calls, audio_backend, toggleFailed, seen>>
    /\ pc[t] = "s_pattern"
    /\ IF ~IsConnected(device)
       THEN Goto(t, "s_initled") /\ UNCHANGED patIdx
       ELSE Goto(t, "s_pat_on") /\ patIdx' = [patIdx EXCEPT ![t] = 0]
    /\ UNCHANGED <<daemonFrame, running, shutdown_event, device_connected,
                   device, led_controller, plugged, muted, audioUp, audioClosed,
                   ledReport, callLog, signalled>>

\* _show_startup_pattern: on to the next colour, or out of the loops
NextColour(t) ==
    IF patIdx[t] + 1 = StartupRepeats * Len(StartupColors)
    THEN Goto(t, "s_pat_endsleep") /\ patIdx' = [patIdx EXCEPT ![t] = 0]
    ELSE Goto(t, "s_pat_on") /\ patIdx' = [patIdx EXCEPT ![t] = patIdx[t] + 1]

\* slip: a failed write of a pattern colour ends start()'s try block
PatternOn_Raises(t) ==
    /\ UNCHANGED <<stopRequested, cyclesOdd>>
    /\ UNCHANGED <<calls, audio_backend, toggleFailed, seen>>
    /\ pc[t] = "s_pat_on"
    /\ LET color == StartupColors[(patIdx[t] % Len(StartupColors)) + 1]
           w == SetLedColor(device, color, ledReport) IN
       /\ ledReport' = w.report
       /\ UNCHANGED patIdx
       /\ IF w.ok
          THEN Goto(t, "s_pat_onsleep") /\ callLog' = <<"led_write">>
          ELSE Goto(t, "s_except") /\ callLog' = <<"led_write_failed">>
    /\ UNCHANGED <<daemonFrame, running, shutdown_event, device_connected,
                   device, led_controller, plugged, muted, audioUp, audioClosed,
                   signalled>>

\* _show_startup_pattern: set_led_color(color), then sleep
PatternOn(t) ==
    /\ UNCHANGED <<stopRequested, cyclesOdd>>
    /\ UNCHANGED <<calls, audio_backend, toggleFailed, seen>>
    /\ pc[t] = "s_pat_on"
    /\ LET color == StartupColors[(patIdx[t] % Len(StartupColors)) + 1]
           w == SetLedColor(device, color, ledReport) IN
       /\ ledReport' = w.report
       /\ IF w.ok
          THEN Goto(t, "s_pat_onsleep") /\ UNCHANGED patIdx
               /\ callLog' = <<"led_write">>
          ELSE NextColour(t) /\ callLog' = <<"led_write_failed">>
    /\ UNCHANGED <<daemonFrame, running, shutdown_event, device_connected,
                   device, led_controller, plugged, muted, audioUp, audioClosed,
                   signalled>>

PatternOnWake(t) ==
    /\ UNCHANGED <<stopRequested, cyclesOdd>>
    /\ UNCHANGED <<calls, audio_backend, toggleFailed, seen>>
    /\ pc[t] = "s_pat_onsleep"
    /\ CanRun(t)
    /\ Goto(t, "s_pat_off")
    /\ UNCHANGED <<daemonFrame, running, shutdown_event, device_connected,
                   patIdx, device, led_controller, plugged, muted, audioUp,
                   audioClosed, ledReport, callLog, signalled>>

\* _show_startup_pattern: set_led_color(NOCOLOR), then sleep
PatternOff(t) ==
    /\ UNCHANGED <<stopRequested, cyclesOdd>>
    /\ UNCHANGED <<calls, audio_backend, toggleFailed, seen>>
    /\ pc[t] = "s_pat_off"
    /\ LET w == SetLedColor(device, "NOCOLOR", ledReport) IN
       /\ ledReport' = w.report
       /\ IF w.ok
          THEN Goto(t, "s_pat_offsleep") /\ UNCHANGED patIdx
               /\ callLog' = <<"led_write">>
          ELSE NextColour(t) /\ callLog' = <<"led_write_failed">>
    /\ UNCHANGED <<daemonFrame, running, shutdown_event, device_connected,
                   device, led_controller, plugged, muted, audioUp, audioClosed,
                   signalled>>

PatternOffWake(t) ==
    /\ UNCHANGED <<stopRequested, cyclesOdd>>
    /\ UNCHANGED <<calls, audio_backend, toggleFailed, seen>>
    /\ pc[t] = "s_pat_offsleep"
    /\ CanRun(t)
    /\ NextColour(t)
    /\ UNCHANGED <<daemonFrame, running, shutdown_event, device_connected,
                   device, led_controller, plugged, muted, audioUp, audioClosed,
                   ledReport, callLog, signalled>>

\* _show_startup_pattern: the pause after the last colour
PatternEndWake(t) ==
    /\ UNCHANGED <<stopRequested, cyclesOdd>>
    /\ UNCHANGED <<calls, audio_backend, toggleFailed, seen>>
    /\ pc[t] = "s_pat_endsleep"
    /\ CanRun(t)
    /\ Goto(t, "s_initled")
    /\ UNCHANGED <<daemonFrame, running, shutdown_event, device_connected,
                   patIdx, device, led_controller, plugged, muted, audioUp,
                   audioClosed, ledReport, callLog, signalled>>

\* start: the initial _update_led_feedback
InitLed(t) ==
    /\ UNCHANGED <<stopRequested, cyclesOdd>>
    /\ UNCHANGED <<calls, audio_backend, toggleFailed, seen>>
    /\ pc[t] = "s_initled"
    /\ LET o == UpdateLedFeedbackCall(device, led_controller, muted, ledReport) IN
       /\ ledReport' = o.report
       /\ callLog' = o.log
    /\ Goto(t, "s_loophead")
    /\ UNCHANGED <<daemonFrame, running, shutdown_event, device_connected,
                   patIdx, device, led_controller, plugged, muted, audioUp,
                   audioClosed, signalled>>

\* _main_loop: the exit test at the head of every iteration
LoopHead(t) ==
    /\ UNCHANGED <<stopRequested, cyclesOdd>>
    /\ UNCHANGED <<calls, audio_backend, toggleFailed, seen>>
    /\ pc[t] = "s_loophead"
    /\ IF ~running \/ shutdown_event
       THEN Goto(t, "s_finally")
       ELSE Goto(t, "s_events")
    /\ UNCHANGED <<daemonFrame, running, shutdown_event, device_connected,
                   patIdx, device, led_controller, plugged, muted, audioUp,
                   audioClosed, ledReport, callLog, signalled>>

\* what byte 3 of a button report can hold, or NoReport when nothing arrives
Reports == {NoReport, 0, 1, 2}

SetMuteEntry(m) == IF m THEN "set_mute(true)" ELSE "set_mute(false)"

Handled(log, m, report) == [log |-> log, muted |-> m, report |-> report]

\* slip: double_tap is dispatched as a toggle of its own
HandleAction_DoubleTapToggles(action, setOk, dev, ctl, m, shown) ==
    IF action \in {"toggle", "double_tap"} THEN
        IF ~AudioOk THEN Handled(<<"is_muted_failed">>, m, shown)
        ELSE IF ~setOk
        THEN Handled(<<"is_muted", "set_mute_failed">>, m, shown)
        ELSE LET o == UpdateLedFeedbackCall(dev, ctl, ~m, shown) IN
             Handled(<<"is_muted", SetMuteEntry(~m)>> \o o.log, ~m, o.report)
    ELSE Handled(<<>>, m, shown)

\* slip: the toggle goes on with a guessed status when is_muted raises
HandleAction_SetAnyway(action, setOk, dev, ctl, m, shown) ==
    IF action = "toggle" THEN
        IF ~AudioOk THEN Handled(<<"is_muted_failed", SetMuteEntry(~m)>>, ~m, shown)
        ELSE IF ~setOk
        THEN Handled(<<"is_muted", "set_mute_failed">>, m, shown)
        ELSE LET o == UpdateLedFeedbackCall(dev, ctl, ~m, shown) IN
             Handled(<<"is_muted", SetMuteEntry(~m)>> \o o.log, ~m, o.report)
    ELSE Handled(<<>>, m, shown)

\* _handle_action; setOk tells whether set_mute_state returns or raises
HandleAction(action, setOk, dev, ctl, m, shown) ==
    IF action = "toggle" THEN
        IF ~AudioOk THEN Handled(<<"is_muted_failed">>, m, shown)
        ELSE IF ~setOk
        THEN Handled(<<"is_muted", "set_mute_failed">>, m, shown)
        ELSE LET o == UpdateLedFeedbackCall(dev, ctl, ~m, shown) IN
             Handled(<<"is_muted", SetMuteEntry(~m)>> \o o.log, ~m, o.report)
    ELSE Handled(<<>>, m, shown)

\* slip: the loop runs over the list and then over its set
Dedup_Doubled(actions) == actions \o actions

\* the actions of a list, each once, toggle first
Dedup(actions) ==
    (IF Has(actions, "toggle") THEN <<"toggle">> ELSE <<>>)
        \o (IF Has(actions, "double_tap") THEN <<"double_tap">> ELSE <<>>)

RECURSIVE HandleActions(_, _, _, _, _, _)
HandleActions(actions, setOk, dev, ctl, m, shown) ==
    IF actions = <<>> THEN Handled(<<>>, m, shown)
    ELSE LET h == HandleAction(Head(actions), setOk, dev, ctl, m, shown)
             rest == HandleActions(Tail(actions), setOk, dev, ctl, h.muted, h.report)
         IN  Handled(h.log \o rest.log, rest.muted, rest.report)

\* slip: the iteration goes on to read_events whatever is_connected says
DeviceMissing_Never(dev) == FALSE

\* _process_button_events: not self.device.is_connected()
DeviceMissing(dev) == ~IsConnected(dev)

\* _process_button_events
ProcessButtonEvents(t) ==
    /\ UNCHANGED stopRequested
    /\ UNCHANGED <<calls, audio_backend, seen>>
    /\ pc[t] = "s_events"
    /\ \E report \in Reports, setOk \in BOOLEAN :
         IF DeviceMissing(device)
         THEN /\ callLog' = <<>>
              /\ UNCHANGED <<smVars, muted, ledReport, faults, cyclesOdd, toggleFailed>>
         ELSE LET evs == ReadEvents(device, report) IN
              IF evs = <<>>
              THEN /\ callLog' = IF device = "dead" THEN <<"read_events_failed">>
                                 ELSE <<"read_events">>
                   /\ UNCHANGED <<smVars, muted, ledReport, faults, cyclesOdd, toggleFailed>>
              ELSE LET r == ProcessEvent(Sm, Event(evs[1], now))
                       h == HandleActions(Dedup(r.actions), setOk, device,
                                          led_controller, muted, ledReport)
                       setFailed == Has(h.log, "set_mute_failed")
                   IN  /\ setFailed => faults < MaxFaults
                       /\ faults' = IF setFailed THEN faults + 1 ELSE faults
                       /\ current_state' = r.sm.state
                       /\ press_count' = r.sm.count
                       /\ last_press_time' = r.sm.last
                       /\ muted' = h.muted
                       /\ ledReport' = h.report
                       /\ callLog' = <<"read_events", "process_event">> \o h.log
                       /\ cyclesOdd' = IF Has(r.actions, "toggle")
                                       THEN ~cyclesOdd ELSE cyclesOdd
                       /\ toggleFailed' =
                              (toggleFailed \/ Has(h.log, "is_muted_failed"))
    /\ Goto(t, "s_led")
    /\ UNCHANGED <<obsVars, clockVars, running, shutdown_event,
                   device_connected, patIdx, device, led_controller, plugged,
                   audioUp, audioClosed, signalled>>

\* slip: a failed LED write escapes the iteration's exception handler
LoopLed_Raises(t) ==
    /\ UNCHANGED <<stopRequested, cyclesOdd>>
    /\ UNCHANGED <<calls, audio_backend, toggleFailed, seen>>
    /\ pc[t] = "s_led"
    /\ LET o == UpdateLedFeedbackCall(device, led_controller, muted, ledReport) IN
       /\ ledReport' = o.report
       /\ callLog' = o.log
       /\ Goto(t, IF Has(o.log, "led_write_failed") THEN "s_except" ELSE "s_sleep")
    /\ UNCHANGED <<daemonFrame, running, shutdown_event, device_connected,
                   patIdx, device, led_controller, plugged, muted, audioUp,
                   audioClosed, signalled>>

\* _main_loop: the _update_led_feedback of every iteration
LoopLed(t) ==
    /\ UNCHANGED <<stopRequested, cyclesOdd>>
    /\ UNCHANGED <<calls, audio_backend, toggleFailed, seen>>
    /\ pc[t] = "s_led"
    /\ LET o == UpdateLedFeedbackCall(device, led_controller, muted, ledReport) IN
       /\ ledReport' = o.report
       /\ callLog' = o.log
    /\ Goto(t, "s_sleep")
    /\ UNCHANGED <<daemonFrame, running, shutdown_event, device_connected,
                   patIdx, device, led_controller, plugged, muted, audioUp,
                   audioClosed, signalled>>

\* _main_loop: the sleep at the end of an iteration is over
LoopSleepWake(t) ==
    /\ UNCHANGED <<stopRequested, cyclesOdd>>
    /\ UNCHANGED <<calls, audio_backend, toggleFailed, seen>>
    /\ pc[t] = "s_sleep"
    /\ CanRun(t)
    /\ Goto(t, "s_loophead")
    /\ UNCHANGED <<daemonFrame, running, shutdown_event, device_connected,
                   patIdx, device, led_controller, plugged, muted, audioUp,
                   audioClosed, ledReport, callLog, signalled>>

\* slip: the startup failure is logged and start() goes on
StartExcept_GoesOn(t) ==
    /\ UNCHANGED <<stopRequested, cyclesOdd>>
    /\ UNCHANGED <<calls, audio_backend, toggleFailed, seen>>
    /\ pc[t] = "s_except"
    /\ UNCHANGED device
    /\ Goto(t, "s_pattern")
    /\ UNCHANGED <<daemonFrame, running, shutdown_event, device_connected,
                   patIdx, led_controller, plugged, muted, audioUp, audioClosed,
                   ledReport, callLog, signalled>>

\* start: except Exception
StartExcept(t) ==
    /\ UNCHANGED <<stopRequested, cyclesOdd>>
    /\ UNCHANGED <<calls, audio_backend, toggleFailed, seen>>
    /\ pc[t] = "s_except"
    /\ device' = IF device_connected[t] /\ device # "none"
                 THEN Disconnect(device) ELSE device
    /\ Goto(t, "s_finally")
    /\ UNCHANGED <<daemonFrame, running, shutdown_event, device_connected,
                   patIdx, led_controller, plugged, muted, audioUp, audioClosed,
                   ledReport, callLog, signalled>>

\* slip: cleanup leaves the device handle open
Cleanup_KeepDevice ==
    /\ device' = device
    /\ audioClosed' = TRUE
    /\ current_state' = Reset.state
    /\ press_count' = Reset.count
    /\ last_press_time' = Reset.last

\* cleanup
Cleanup ==
    /\ device' = Disconnect(device)
    /\ audioClosed' = TRUE
    /\ current_state' = Reset.state
    /\ press_count' = Reset.count
    /\ last_press_time' = Reset.last

\* start: finally
StartFinally(t) ==
    /\ UNCHANGED cyclesOdd
    /\ UNCHANGED <<calls, audio_backend, toggleFailed, seen>>
    /\ pc[t] = "s_finally"
    /\ running' = FALSE
    /\ Cleanup
    /\ Goto(t, "idle")
    /\ callLog' = <<"cleanup">>
    /\ signalled' = (signalled /\ \E u \in Tasks \ {t} : pc[u] \in StartPcs)
    /\ stopRequested' = (stopRequested /\ \E u \in Tasks \ {t} : pc[u] \in StartPcs)
    /\ device_connected' = [device_connected EXCEPT ![t] = FALSE]
    /\ patIdx' = [patIdx EXCEPT ![t] = 0]
    /\ UNCHANGED <<obsVars, clockVars, faults, shutdown_event,
                   led_controller, plugged, muted, audioUp, ledReport>>

\* the task running start() is cancelled while it sleeps
CancelStart(t) ==
    /\ UNCHANGED <<stopRequested, cyclesOdd>>
    /\ Called
    /\ UNCHANGED <<audio_backend, toggleFailed, seen>>
    /\ pc[t] \in {"s_connsleep", "s_pat_onsleep", "s_pat_offsleep",
                  "s_pat_endsleep", "s_sleep"}
    /\ CanRun(t)
    /\ Goto(t, "s_finally")
    /\ UNCHANGED <<daemonFrame, running, shutdown_event, device_connected,
                   patIdx, device, led_controller, plugged, muted, audioUp,
                   audioClosed, ledReport, callLog, signalled>>

\* stop: the not-running guard and self._shutdown_event.set()
CallStop(t) ==
    /\ UNCHANGED cyclesOdd
    /\ Called
    /\ UNCHANGED <<audio_backend, toggleFailed, seen>>
    /\ pc[t] = "idle"
    /\ CanRun(t)
    /\ IF ~running
       THEN /\ callLog' = <<"stop_noop">>
            /\ UNCHANGED <<shutdown_event, pc, stopRequested>>
       ELSE /\ shutdown_event' = TRUE
            /\ Goto(t, "p_sleep")
            /\ callLog' = <<"stop">>
            /\ stopRequested' = TRUE
    /\ UNCHANGED <<daemonFrame, running, device_connected, patIdx, device,
                   led_controller, plugged, muted, audioUp, audioClosed,
                   ledReport, signalled>>

\* stop: the grace period is over (or the task was cancelled): finally
StopFinally(t) ==
    /\ UNCHANGED <<stopRequested, cyclesOdd>>
    /\ UNCHANGED <<calls, audio_backend, toggleFailed, seen>>
    /\ pc[t] = "p_sleep"
    /\ CanRun(t)
    /\ running' = FALSE
    /\ Goto(t, "idle")
    /\ UNCHANGED <<daemonFrame, shutdown_event, device_connected, patIdx,
                   device, led_controller, plugged, muted, audioUp, audioClosed,
                   ledReport, callLog, signalled>>

\* ------------------------------------------------------------ environment
\* the button is unplugged: an open handle goes dead
Unplug ==
    /\ UNCHANGED <<stopRequested, cyclesOdd>>
    /\ UNCHANGED <<calls, audio_backend, toggleFailed, seen>>
    /\ faults < MaxFaults
    /\ faults' = faults + 1
    /\ plugged
    /\ plugged' = FALSE
    /\ device' = IF device = "live" THEN "dead" ELSE device
    /\ UNCHANGED <<smVars, obsVars, clockVars, running, shutdown_event, pc, device_connected,
                   patIdx, led_controller, muted, audioUp, audioClosed,
                   ledReport, callLog, signalled>>

\* the button is plugged in again: discoverable, but old handles stay dead
Replug ==
    /\ UNCHANGED <<stopRequested, cyclesOdd>>
    /\ UNCHANGED <<calls, audio_backend, faults, toggleFailed, seen>>
    /\ ~plugged
    /\ plugged' = TRUE
    /\ UNCHANGED <<smVars, obsVars, clockVars, running, shutdown_event, pc, device_connected,
                   patIdx, device, led_controller, muted, audioUp, audioClosed,
                   ledReport, callLog, signalled>>

\* whoever holds the device object calls disconnect() on it
ExternalDisconnect ==
    /\ UNCHANGED <<stopRequested, cyclesOdd>>
    /\ UNCHANGED <<calls, audio_backend, toggleFailed, seen>>
    /\ faults < MaxFaults
    /\ faults' = faults + 1
    /\ IsConnected(device)
    /\ device' = Disconnect(device)
    /\ UNCHANGED <<smVars, obsVars, clockVars, running, shutdown_event, pc, device_connected,
                   patIdx, led_controller, plugged, muted, audioUp, audioClosed,
                   ledReport, callLog, signalled>>

\* the audio server goes away or comes back
AudioFlip ==
    /\ UNCHANGED <<stopRequested, cyclesOdd>>
    /\ UNCHANGED <<calls, audio_backend, toggleFailed, seen>>
    /\ audioUp => faults < MaxFaults
    /\ faults' = IF audioUp THEN faults + 1 ELSE faults
    /\ audioUp' = ~audioUp
    /\ UNCHANGED <<smVars, obsVars, clockVars, running, shutdown_event, pc, device_connected,
                   patIdx, device, led_controller, plugged, muted, audioClosed,
                   ledReport, callLog, signalled>>

\* somebody else changes the mute status
ExternalMute ==
    /\ UNCHANGED <<stopRequested, cyclesOdd>>
    /\ UNCHANGED <<calls, audio_backend, toggleFailed, seen>>
    /\ faults < MaxFaults
    /\ faults' = faults + 1
    /\ muted' = ~muted
    /\ UNCHANGED <<smVars, obsVars, clockVars, running, shutdown_event, pc, device_connected,
                   patIdx, device, led_controller, plugged, audioUp, audioClosed,
                   ledReport, callLog, signalled>>

\* time between two polls: inside the double-tap window or beyond it (two
\* polls with no time between them are closer than the debounce time)
DaemonDeltas == {150, 400}

\* the clock is read only by read_events and only ever compared with
\* last_press_time: time passes while the poll loop sleeps
DaemonTick ==
    /\ last_press_time # NoTime
    /\ \E t \in Tasks : pc[t] = "s_sleep"
    /\ ticks < MaxDaemonTicks
    /\ \E d \in DaemonDeltas : now' = now + d
    /\ ticks' = ticks + 1
    /\ UNCHANGED <<smVars, obsVars, daemonVars>>

\* ------------------------------------------------- Spec: the daemon
Init ==
    /\ InitMachine
    /\ running = FALSE
    /\ shutdown_event = FALSE
    /\ pc = [t \in Tasks |-> "idle"]
    /\ device_connected = [t \in Tasks |-> FALSE]
    /\ patIdx = [t \in Tasks |-> 0]
    /\ device = "none"
    /\ led_controller = "none"
    /\ plugged = TRUE
    /\ muted = FALSE
    /\ audioUp = TRUE
    /\ audioClosed = FALSE
    /\ ledReport = <<>>
    /\ callLog = <<>>
    /\ signalled = FALSE
    /\ faults = 0
    /\ calls = 0
    /\ stopRequested = FALSE
    /\ cyclesOdd = FALSE
    /\ audio_backend \in AudioBackends
    /\ toggleFailed = FALSE
    /\ seen = Unseen

StartStep(t) ==
    \/ CallStart(t) \/ StartClear(t) \/ StartConnect(t) \/ StartConnSleep(t)
    \/ StartLedCtl(t) \/ StartPattern(t) \/ PatternOn(t) \/ PatternOnWake(t)
    \/ PatternOff(t) \/ PatternOffWake(t) \/ PatternEndWake(t) \/ InitLed(t)
    \/ LoopHead(t) \/ ProcessButtonEvents(t) \/ LoopLed(t) \/ LoopSleepWake(t)
    \/ StartExcept(t) \/ StartFinally(t)

\* the steps a coroutine takes by itself once it has been called
Progress(t) ==
    \/ StartClear(t) \/ StartConnect(t) \/ StartConnSleep(t)
    \/ StartLedCtl(t) \/ StartPattern(t) \/ PatternOn(t) \/ PatternOnWake(t)
    \/ PatternOff(t) \/ PatternOffWake(t) \/ PatternEndWake(t) \/ InitLed(t)
    \/ LoopHead(t) \/ ProcessButtonEvents(t) \/ LoopLed(t) \/ LoopSleepWake(t)
    \/ StartExcept(t) \/ StartFinally(t) \/ StopFinally(t)

Environment ==
    \/ Unplug \/ Replug \/ ExternalDisconnect \/ AudioFlip \/ ExternalMute
    \/ DaemonTick

\* Spec: one start() coroutine (task 1) and one stop() coroutine (task 2),
\* signals, and the environment acting on the device, the audio server and
\* the clock
Next ==
    \/ StartStep(1)
    \/ CancelStart(1)
    \/ CallStop(2)
    \/ StopFinally(2)
    \/ SignalHandler
    \/ Environment

Spec == Init /\ [][Next]_vars

\* SpecLife: any task may call start() or stop() at any time, signals may
\* arrive at any time; the device stays plugged and the audio server up
NextLife ==
    \/ \E t \in Tasks : StartStep(t)
    \/ \E t \in Tasks : CancelStart(t)
    \/ \E t \in Tasks : CallStop(t)
    \/ \E t \in Tasks : StopFinally(t)
    \/ SignalHandler

SpecLife == Init /\ [][NextLife]_vars

\* the event loop runs the coroutine that holds the thread up to its next
\* await and resumes every coroutine whose sleep has ended; a coroutine is
\* not enabled while another one holds the thread, hence strong fairness
FairLife == SpecLife /\ \A t \in Tasks : SF_vars(Progress(t))

\* ------------------------------------- the device and the LED controller
\* by themselves: a caller holds a MuteMeDevice and a LEDFeedbackController
\* over it and calls their methods in any order
devFrame == <<smVars, obsVars, clockVars, running, shutdown_event, pc,
              device_connected, patIdx, led_controller, signalled, calls,
              stopRequested, cyclesOdd, toggleFailed, audio_backend,
              audioClosed, faults>>

\* the object gets a handle: connect / connect_by_vid_pid
DevOpen ==
    /\ plugged
    /\ ~IsConnected(device)
    /\ device' = "live"
    /\ callLog' = <<"connect">>
    /\ UNCHANGED <<devFrame, plugged, muted, audioUp, ledReport, seen>>

\* disconnect()
DevClose ==
    /\ device' = Disconnect(device)
    /\ callLog' = <<"disconnect">>
    /\ UNCHANGED <<devFrame, plugged, muted, audioUp, ledReport, seen>>

\* read_events()
DevRead ==
    \E data \in HidReads :
        /\ seen' = [seen EXCEPT !.readReport = data,
                                !.samples = ReadEventsFrom(device, data)]
        /\ callLog' = <<"read_events">>
        /\ UNCHANGED <<devFrame, device, plugged, muted, audioUp, ledReport>>

\* update_led_to_mute_status()
DevSync ==
    LET o == UpdateLedToMuteStatus(device, muted, ledReport) IN
    /\ ledReport' = o.report
    /\ callLog' = o.log
    /\ UNCHANGED <<devFrame, device, plugged, muted, audioUp, seen>>

\* force_led_color(color)
DevForce ==
    \E color \in {"NOCOLOR", "RED", "BLUE"} :
        LET o == ForceLedColor(device, color, ledReport) IN
        /\ ledReport' = o.report
        /\ callLog' = o.log
        /\ UNCHANGED <<devFrame, device, plugged, muted, audioUp, seen>>

NextDev ==
    \/ DevOpen \/ DevClose \/ DevRead \/ DevSync \/ DevForce
    \/ Unplug \/ Replug \/ AudioFlip \/ ExternalMute

SpecDev == Init /\ [][NextDev]_vars

\* ------------------------------------------ the MuteMeDevice by itself:
\* a caller holds one MuteMeDevice and calls its methods in any order, while
\* the colours of LEDColor
LedColors == {"NOCOLOR", "RED", "GREEN", "YELLOW", "BLUE", "PURPLE", "CYAN",
              "WHITE"}

\* the report_format values set_led_color knows, and another one
ReportFormats == {"standard", "no_report_id", "report_id_0", "report_id_2",
                  "padded", "other"}

\* the brightness values set_led_color knows, and another one
BrightnessLevels == {"normal", "dim", "fast_pulse", "slow_pulse", "flashing",
                     "other"}

hidFrame == <<devFrame, muted, audioUp, callLog>>

\* what the call just made leaves for the caller to see
Observe(op, r, closes, data, events) ==
    /\ seen' = [seen EXCEPT !.lastOp = op, !.hidLog = r.hid,
                            !.opResult = r.result, !.handleCloses = closes,
                            !.readReport = data, !.samples = events]
    /\ device' = r.dev

\* connect / connect_by_vid_pid: a new object with a new handle, or
\* DeviceError when the handle cannot be opened
HidOpen ==
    /\ ~IsConnected(device)
    /\ Observe(Op("connect", "", FALSE, "", ""),
               Done(<<HidCall("open", <<>>)>>, ~plugged,
                    IF plugged THEN "live" ELSE device), 0, <<>>, <<>>)
    /\ UNCHANGED <<hidFrame, plugged, ledReport>>

\* disconnect()
HidDisconnect ==
    \E closeFails \in BOOLEAN :
        LET r == DisconnectCall(device, closeFails) IN
        /\ Observe(Op("disconnect", "", FALSE, "", ""), r,
                   seen.handleCloses + Len(r.hid), <<>>, <<>>)
        /\ UNCHANGED <<hidFrame, plugged, ledReport>>

\* read(size, timeout_ms)
HidRead ==
    /\ Observe(Op("read", "", FALSE, "", ""), ReadCall(device),
               seen.handleCloses, <<>>, <<>>)
    /\ UNCHANGED <<hidFrame, plugged, ledReport>>

\* write(data)
HidWrite ==
    /\ Observe(Op("write", "", FALSE, "", ""), WriteCall(device, <<0, 0>>),
               seen.handleCloses, <<>>, <<>>)
    /\ UNCHANGED <<hidFrame, plugged, ledReport>>

\* read_events()
HidReadEvents ==
    \E data \in {<<>>, <<0, 0, 0>>, <<0, 0, 0, 0>>, <<0, 0, 0, 1>>} :
        /\ Observe(Op("read_events", "", FALSE, "", ""),
                   ReadEventsCall(device), seen.handleCloses,
                   IF device = "live" THEN data ELSE <<>>,
                   ReadEventsFrom(device, data))
        /\ UNCHANGED <<hidFrame, plugged, ledReport>>

\* an argument of set_led_color left out ("") takes the signature's default
Given(arg, default) == IF arg = "" THEN default ELSE arg

\* the reports of a call that the hardware took
Accepted(r) ==
    IF r.result = "returned" THEN r.hid ELSE SubSeq(r.hid, 1, Len(r.hid) - 1)

\* set_led_color(color, use_feature_report, report_format, brightness);
\* canFail tells whether the hardware may stop answering during the call
HidSetLed(colors, fmts, levels, canFail) ==
    \E color \in colors, feature \in BOOLEAN, fmt \in fmts,
       brightness \in levels :
        \E failAt \in 0..(IF ~canFail THEN 0
                          ELSE IF brightness = "flashing"
                          THEN 2 * FlashCycles + 1 ELSE 1) :
            LET r == SetLedColorCall(device, color, feature,
                                     Given(fmt, "report_id_0"),
                                     Given(brightness, "normal"), failAt)
                taken == Accepted(r)
            IN  /\ Observe(Op("set_led_color", color, feature, fmt, brightness),
                           r, seen.handleCloses, <<>>, <<>>)
                /\ plugged' = IF device = "live" /\ r.dev = "dead"
                               THEN FALSE ELSE plugged
                /\ ledReport' = IF taken = <<>> THEN ledReport
                                 ELSE taken[Len(taken)].bytes
                /\ UNCHANGED hidFrame

\* SpecCodec: every colour, format and brightness written in one report
NextCodec ==
    \/ HidOpen
    \/ HidSetLed(LedColors, ReportFormats \cup {""},
                 (BrightnessLevels \ {"flashing"}) \cup {""}, FALSE)

SpecCodec == Init /\ [][NextCodec]_vars

\* SpecHid: every method, the LED set plainly or flashing
NextHid ==
    \/ HidOpen \/ HidDisconnect \/ HidRead \/ HidWrite \/ HidReadEvents
    \/ HidSetLed({"RED"}, {"report_id_0"}, {"normal", "flashing"}, TRUE)
    \/ Unplug \/ Replug

SpecHid == Init /\ [][NextHid]_vars

\* SpecDisc: discovery and the choice of the device to connect to
\* the most HID devices one enumeration lists
MaxEnumerated == 2

\* (vendor_id, product_id) of HID devices on the bus: both families, one
\* family's vendor with the other's product, and a device of another maker
\* listed by hid.enumerate() in bus order, each with its own path
Enumerations ==
    UNION {{[i \in 1..n |-> [vendor_id |-> f[i][1], product_id |-> f[i][2],
                             path |-> i]]
            : f \in [1..n -> {<<8352, 17114>>, <<13827, 1>>, <<8352, 1>>,
                               <<13827, 17114>>, <<1133, 49271>>}]}
           : n \in 0..MaxEnumerated}

\* slip: any listed vendor with any listed product
IsMuteMeDevice_AnyPairing(vendor_id, product_id) ==
    /\ vendor_id \in {8352, 13827}
    /\ product_id \in {17114, 17115, 1, 2, 3, 4}

\* _is_muteme_device with MUTEME_VID, MUTEME_PIDS, MINI_VID and MINI_PIDS
IsMuteMeDevice(vendor_id, product_id) ==
    \/ (vendor_id = 8352 /\ product_id \in {17114, 17115})
    \/ (vendor_id = 13827 /\ product_id \in {1, 2, 3, 4})

\* discover_devices on what hid.enumerate() returned
DiscoverDevices(hid_devices) ==
    SelectSeq(hid_devices,
              LAMBDA d : IsMuteMeDevice(d.vendor_id, d.product_id))

\* what _connect_device did: the connect calls it made, how it ended, the
\* messages of the error it raised, and self.device afterwards
Connected(attempts, msgs) ==
    [calls |-> attempts,
     result |-> IF msgs = {} THEN "returned" ELSE "DeviceError",
     msgs |-> msgs,
     dev |-> IF msgs = {} THEN "live" ELSE "none"]

\* slip: the path is tried first and the ids second
ConnectDeviceCall_PathFirst(devices, vid, pid, idsOk, pathOk) ==
    IF devices = <<>> THEN Connected(<<>>, {"No MuteMe devices seen.found"})
    ELSE LET matching_devices ==
                 SelectSeq(devices, LAMBDA d : d.vendor_id = vid
                                               /\ d.product_id = pid)
             device_info == IF matching_devices = <<>> THEN devices[1]
                            ELSE matching_devices[1]
             byIds == HidCall("connect_by_vid_pid",
                              <<device_info.vendor_id, device_info.product_id>>)
             byPath == HidCall("connect", <<device_info.path>>)
         IN  IF pathOk THEN Connected(<<byPath>>, {})
             ELSE IF idsOk THEN Connected(<<byPath, byIds>>, {})
             ELSE Connected(<<byPath, byIds>>,
                            {"VID/PID method", "Path method"})

\* _connect_device on the discovered devices with the configured vid and
\* pid; idsOk and pathOk tell whether the two ways of opening succeed
ConnectDeviceCall(devices, vid, pid, idsOk, pathOk) ==
    IF devices = <<>> THEN Connected(<<>>, {"No MuteMe devices seen.found"})
    ELSE LET matching_devices ==
                 SelectSeq(devices, LAMBDA d : d.vendor_id = vid
                                               /\ d.product_id = pid)
             device_info == IF matching_devices = <<>> THEN devices[1]
                            ELSE matching_devices[1]
             byIds == HidCall("connect_by_vid_pid",
                              <<device_info.vendor_id, device_info.product_id>>)
             byPath == HidCall("connect", <<device_info.path>>)
         IN  IF idsOk THEN Connected(<<byIds>>, {})
             ELSE IF pathOk THEN Connected(<<byIds, byPath>>, {})
             ELSE Connected(<<byIds, byPath>>,
                            {"VID/PID method", "Path method"})

\* MuteMeDevice.discover_devices(); enumerating may fail
DiscDiscover ==
    \E hid_devices \in Enumerations, enumFails \in BOOLEAN :
        /\ seen' = [seen EXCEPT
                 !.lastOp = [op |-> "discover_devices",
                             enumerated |-> hid_devices],
                 !.hidLog = <<HidCall("enumerate", <<>>)>>,
                 !.found = IF enumFails THEN <<>>
                           ELSE DiscoverDevices(hid_devices),
                 !.opResult = IF enumFails THEN "DeviceError" ELSE "returned",
                 !.raisedMsgs = IF enumFails THEN {"Device enumeration failed"}
                                ELSE {}]
        /\ UNCHANGED <<hidFrame, plugged, ledReport, device>>

\* MuteMeDaemon._connect_device() while self.device holds no open handle
DiscConnect ==
    /\ ~IsConnected(device)
    /\ \E hid_devices \in Enumerations, idsOk \in BOOLEAN, pathOk \in BOOLEAN,
          cfg \in {<<8352, 17114>>, <<13827, 1>>} :
          LET devices == DiscoverDevices(hid_devices)
              r == ConnectDeviceCall(devices, cfg[1], cfg[2], idsOk, pathOk)
          IN  /\ seen' = [seen EXCEPT
                       !.lastOp = [op |-> "_connect_device", vid |-> cfg[1],
                                   pid |-> cfg[2], idsOk |-> idsOk,
                                   pathOk |-> pathOk],
                       !.found = devices,
                       !.hidLog = r.calls,
                       !.opResult = r.result,
                       !.raisedMsgs = r.msgs,
                       !.handleCloses = IF r.result = "returned" THEN 0
                                        ELSE seen.handleCloses]
              /\ device' = IF r.result = "returned" THEN r.dev ELSE device
              /\ UNCHANGED <<hidFrame, plugged, ledReport>>

NextDisc == DiscDiscover \/ DiscConnect \/ HidDisconnect

SpecDisc == Init /\ [][NextDisc]_vars

\* SpecTap: the main loop of a started daemon, one button sample an
\* iteration, the device connected and the audio server answering; start()
\* has shown the startup pattern and synchronised the LED, and the
\* microphone may have been muted from outside before
InitTap ==
    /\ InitMachine
    /\ running = TRUE
    /\ shutdown_event = FALSE
    /\ pc = [t \in Tasks |-> IF t = 1 THEN "s_events" ELSE "idle"]
    /\ device_connected = [t \in Tasks |-> t = 1]
    /\ patIdx = [t \in Tasks |-> 0]
    /\ device = "live"
    /\ led_controller = "current"
    /\ plugged = TRUE
    /\ muted \in BOOLEAN
    /\ audioUp = TRUE
    /\ audioClosed = FALSE
    /\ audio_backend \in AudioBackends
    /\ LET o == UpdateLedFeedbackCall("live", "current", muted,
                    BuildReport("report_id_0", LEDColorValue("NOCOLOR")))
       IN  ledReport = o.report /\ callLog = o.log
    /\ signalled = FALSE
    /\ faults = IF muted THEN 1 ELSE 0
    /\ calls = 1
    /\ stopRequested = FALSE
    /\ cyclesOdd = FALSE
    /\ toggleFailed = FALSE
    /\ seen = Unseen

\* one iteration of _main_loop in which read_events returns a sample:
\* _process_button_events, then _update_led_feedback
TapIteration ==
    /\ Len(hist) < MaxEvents
    /\ \E report \in {0, 1} :
         LET evs == ReadEvents(device, report)
             ev == Event(evs[1], now)
             r == ProcessEvent(Sm, ev)
             h == HandleActions(Dedup(r.actions), TRUE, device, led_controller,
                                muted, ledReport)
             o == UpdateLedFeedbackCall(device, led_controller, h.muted,
                                        h.report)
         IN  /\ Feed(ev)
             /\ seen' = [seen EXCEPT !.muteLog = Append(seen.muteLog, h.muted)]
             /\ muted' = h.muted
             /\ ledReport' = o.report
             /\ callLog' = <<"read_events", "process_event">> \o h.log
             /\ cyclesOdd' = IF Has(r.actions, "toggle")
                             THEN ~cyclesOdd ELSE cyclesOdd
    /\ UNCHANGED <<clockVars, running, shutdown_event, pc, device_connected,
                   patIdx, device, led_controller, plugged, audioUp,
                   audioClosed, signalled, faults, calls, stopRequested,
                   audio_backend, toggleFailed>>

NextTap == TapIteration \/ Tick

SpecTap == InitTap /\ [][NextTap]_vars

\* SpecClean: cleanup() in any state of the daemon's resources; the
\* collaborators may be objects passed to __init__ whose calls raise
\* slip: one try block around the three steps
CleanupCall_OneTry(dev, devRaises, closeFails, audioRaises, resetRaises) ==
    LET c == DisconnectCall(dev, closeFails)
        devStep == dev # "none"
        devOk == ~(devStep /\ devRaises)
        audioOk == devOk /\ ~audioRaises
    IN  [log |-> (IF ~devStep THEN <<>>
                  ELSE IF devRaises THEN <<"device_close_failed">>
                  ELSE <<"device_close">>)
                 \o (IF ~devOk THEN <<>>
                     ELSE IF audioRaises THEN <<"audio_close_failed">>
                     ELSE <<"audio_close">>)
                 \o (IF ~audioOk THEN <<>>
                     ELSE IF resetRaises THEN <<"reset_failed">>
                     ELSE <<"reset">>),
         hid |-> IF devStep /\ ~devRaises THEN c.hid ELSE <<>>,
         dev |-> IF devStep /\ ~devRaises THEN c.dev ELSE dev,
         audioClosed |-> audioOk,
         reset |-> audioOk /\ ~resetRaises,
         result |-> "returned"]

\* cleanup; devRaises, audioRaises and resetRaises tell whether the device's
\* disconnect(), the backend's close() and the machine's reset() raise,
\* closeFails whether the hid handle's close() does (disconnect swallows it)
CleanupCall(dev, devRaises, closeFails, audioRaises, resetRaises) ==
    LET c == DisconnectCall(dev, closeFails)
        devStep == dev # "none"
    IN  [log |-> (IF ~devStep THEN <<>>
                  ELSE IF devRaises THEN <<"device_close_failed">>
                  ELSE <<"device_close">>)
                 \o <<IF audioRaises THEN "audio_close_failed"
                      ELSE "audio_close">>
                 \o <<IF resetRaises THEN "reset_failed" ELSE "reset">>,
         hid |-> IF devStep /\ ~devRaises THEN c.hid ELSE <<>>,
         dev |-> IF devStep /\ ~devRaises THEN c.dev ELSE dev,
         audioClosed |-> ~audioRaises,
         reset |-> ~resetRaises,
         result |-> "returned"]

\* cleanup()
CleanCleanup ==
    \E devRaises \in BOOLEAN, closeFails \in BOOLEAN, audioRaises \in BOOLEAN,
       resetRaises \in BOOLEAN :
        LET r == CleanupCall(device, devRaises, closeFails, audioRaises,
                             resetRaises)
        IN  /\ seen' = [seen EXCEPT
                     !.lastOp = [op |-> "cleanup", dev |-> device,
                                 devRaises |-> devRaises,
                                 audioRaises |-> audioRaises,
                                 resetRaises |-> resetRaises],
                     !.hidLog = r.hid,
                     !.opResult = r.result,
                     !.handleCloses = seen.handleCloses + Len(r.hid)]
            /\ callLog' = r.log
            /\ device' = r.dev
            /\ audioClosed' = (audioClosed \/ r.audioClosed)
            /\ IF r.reset
               THEN /\ current_state' = Reset.state
                    /\ press_count' = Reset.count
                    /\ last_press_time' = Reset.last
                    /\ hist' = <<>>
                    /\ outs' = <<>>
                    /\ prevSm' = InitialMachine
                    /\ accepted' = 0
                    /\ lastAware' = FALSE
                    /\ UNCHANGED smOutcome
               ELSE UNCHANGED <<smVars, obsVars>>
            /\ UNCHANGED <<clockVars, running, shutdown_event, pc,
                           device_connected, patIdx, led_controller, plugged,
                           muted, audioUp, ledReport, signalled, faults, calls,
                           stopRequested, cyclesOdd, audio_backend,
                           toggleFailed>>

NextClean == HidOpen \/ Unplug \/ Replug \/ SMPress \/ CleanCleanup

SpecClean == Init /\ [][NextClean]_vars

\* Spec with the event loop's scheduling: a called coroutine keeps running,
\* whatever the environment does
\* SpecPre: the daemon is given a state machine (MuteMeDaemon.__init__,
\* state_machine) that processes samples before start() is called
NextPre ==
    \/ calls = 0 /\ (SMPress \/ SMRelease)
    \/ StartStep(1)

SpecPre == Init /\ [][NextPre]_vars

\* ------------------------------- SpecLock: start(), stop() and the lock
\* start(), _main_loop() and stop() step by step around _running_lock: the
\* acquisition, the statements inside the async with block and the release
\* are steps of their own; the startup sequence and the body of a poll
\* iteration are the sleeps "k_s_body" and "k_l_sleep".
\*
\* a coroutine is parked at a sleep, or at an acquisition of a lock that
\* another one holds; asyncio runs a coroutine from one parking to the next
LockCanRun(t) ==
    LET Parked(u) ==
            \/ pc[u] \in {"idle", "k_s_body", "k_l_sleep", "k_p_sleep"}
            \/ /\ pc[u] \in {"k_s_acq", "k_l_acq", "k_f_acq", "k_p_acq", "k_p_facq"}
               /\ seen.lock # 0
    IN  Parked(t) => \A u \in Tasks \ {t} : Parked(u)

\* slip: stop() sleeps inside its first async with block
LockStop_SleepsLocked(t) ==
    /\ LockCanRun(t)
    /\ \/ /\ pc[t] = "idle"
          /\ Called
          /\ Goto(t, "k_p_acq")
          /\ UNCHANGED <<running, shutdown_event, seen>>
       \/ /\ pc[t] \in {"k_p_acq", "k_p_facq"}
          /\ seen.lock \in {0, t}
          /\ seen' = [seen EXCEPT !.lock = t]
          /\ Goto(t, IF pc[t] = "k_p_acq" THEN "k_p_guard" ELSE "k_p_fwrite")
          /\ UNCHANGED <<running, shutdown_event, calls>>
       \/ /\ pc[t] = "k_p_guard"
          /\ IF ~running
             THEN Goto(t, "idle") /\ seen' = [seen EXCEPT !.lock = 0]
             ELSE Goto(t, "k_p_set") /\ UNCHANGED seen
          /\ UNCHANGED <<running, shutdown_event, calls>>
       \/ /\ pc[t] = "k_p_set"
          /\ shutdown_event' = TRUE
          /\ Goto(t, "k_p_sleep")
          /\ UNCHANGED <<running, seen, calls>>
       \/ /\ pc[t] = "k_p_sleep"
          /\ Goto(t, "k_p_facq")
          /\ UNCHANGED <<running, shutdown_event, seen, calls>>
       \/ /\ pc[t] = "k_p_fwrite"
          /\ running' = FALSE
          /\ seen' = [seen EXCEPT !.lock = 0]
          /\ Goto(t, "idle")
          /\ UNCHANGED <<shutdown_event, calls>>
    /\ UNCHANGED <<smVars, obsVars, clockVars, device_connected, patIdx,
                   device, led_controller, plugged, muted, audioUp,
                   audioClosed, audio_backend, ledReport, callLog, signalled,
                   faults, stopRequested, cyclesOdd, toggleFailed>>

\* start() and _main_loop()
LockStart(t) ==
    /\ LockCanRun(t)
    /\ \/ /\ pc[t] = "idle"
          /\ Called
          /\ Goto(t, "k_s_acq")
          /\ UNCHANGED <<running, shutdown_event, seen, signalled>>
       \* async with self._running_lock: the lock is free and is taken
       \/ /\ pc[t] \in {"k_s_acq", "k_l_acq", "k_f_acq"}
          /\ seen.lock = 0
          /\ seen' = [seen EXCEPT !.lock = t]
          /\ Goto(t, CASE pc[t] = "k_s_acq" -> "k_s_guard"
                       [] pc[t] = "k_l_acq" -> "k_l_read"
                       [] OTHER -> "k_f_write")
          /\ UNCHANGED <<running, shutdown_event, calls, signalled>>
       \* if self.running: return; self.running = True
       \/ /\ pc[t] = "k_s_guard"
          /\ IF running
             THEN /\ Goto(t, "idle")
                  /\ seen' = [seen EXCEPT !.lock = 0]
                  /\ UNCHANGED running
             ELSE /\ Goto(t, "k_s_clear")
                  /\ running' = TRUE
                  /\ UNCHANGED seen
          /\ UNCHANGED <<shutdown_event, calls, signalled>>
       \* self._shutdown_event.clear(), the end of the async with block
       \/ /\ pc[t] = "k_s_clear"
          /\ shutdown_event' = FALSE
          /\ seen' = [seen EXCEPT !.lock = 0]
          /\ Goto(t, "k_s_body")
          /\ UNCHANGED <<running, calls, signalled>>
       \* the startup sequence ends: on to _main_loop, or an exception or a
       \* cancellation takes start() to its finally
       \/ /\ pc[t] = "k_s_body"
          /\ \E to \in {"k_l_acq", "k_f_acq"} : Goto(t, to)
          /\ UNCHANGED <<running, shutdown_event, seen, calls, signalled>>
       \* _main_loop: the flag is read inside the async with block, the
       \* shutdown event after it
       \/ /\ pc[t] = "k_l_read"
          /\ seen' = [seen EXCEPT !.lock = 0]
          /\ Goto(t, IF ~running \/ shutdown_event THEN "k_f_acq"
                     ELSE "k_l_sleep")
          /\ UNCHANGED <<running, shutdown_event, calls, signalled>>
       \* the iteration and its sleep are over, or the task is cancelled
       \/ /\ pc[t] = "k_l_sleep"
          /\ \E to \in {"k_l_acq", "k_f_acq"} : Goto(t, to)
          /\ UNCHANGED <<running, shutdown_event, seen, calls, signalled>>
       \* finally: self.running = False, then cleanup()
       \/ /\ pc[t] = "k_f_write"
          /\ running' = FALSE
          /\ seen' = [seen EXCEPT !.lock = 0]
          /\ Goto(t, "idle")
          /\ signalled' = (signalled /\ \E u \in Tasks \ {t} :
                                           pc[u] \notin {"idle", "k_p_acq",
                                               "k_p_guard", "k_p_set",
                                               "k_p_sleep", "k_p_facq",
                                               "k_p_fwrite"})
          /\ UNCHANGED <<shutdown_event, calls>>
    /\ UNCHANGED <<smVars, obsVars, clockVars, device_connected, patIdx,
                   device, led_controller, plugged, muted, audioUp,
                   audioClosed, audio_backend, ledReport, callLog, faults,
                   stopRequested, cyclesOdd, toggleFailed>>

\* stop()
LockStop(t) ==
    /\ LockCanRun(t)
    /\ \/ /\ pc[t] = "idle"
          /\ Called
          /\ Goto(t, "k_p_acq")
          /\ UNCHANGED <<running, shutdown_event, seen>>
       \* async with self._running_lock: the lock is free and is taken
       \/ /\ pc[t] \in {"k_p_acq", "k_p_facq"}
          /\ seen.lock = 0
          /\ seen' = [seen EXCEPT !.lock = t]
          /\ Goto(t, IF pc[t] = "k_p_acq" THEN "k_p_guard" ELSE "k_p_fwrite")
          /\ UNCHANGED <<running, shutdown_event, calls>>
       \* if not self.running: return
       \/ /\ pc[t] = "k_p_guard"
          /\ seen' = [seen EXCEPT !.lock = 0]
          /\ Goto(t, IF ~running THEN "idle" ELSE "k_p_set")
          /\ UNCHANGED <<running, shutdown_event, calls>>
       \* self._shutdown_event.set(), then the grace sleep begins
       \/ /\ pc[t] = "k_p_set"
          /\ shutdown_event' = TRUE
          /\ Goto(t, "k_p_sleep")
          /\ UNCHANGED <<running, seen, calls>>
       \* the grace sleep is over, or the task is cancelled
       \/ /\ pc[t] = "k_p_sleep"
          /\ Goto(t, "k_p_facq")
          /\ UNCHANGED <<running, shutdown_event, seen, calls>>
       \* finally: self.running = False
       \/ /\ pc[t] = "k_p_fwrite"
          /\ running' = FALSE
          /\ seen' = [seen EXCEPT !.lock = 0]
          /\ Goto(t, "idle")
          /\ UNCHANGED <<shutdown_event, calls>>
    /\ UNCHANGED <<smVars, obsVars, clockVars, device_connected, patIdx,
                   device, led_controller, plugged, muted, audioUp,
                   audioClosed, audio_backend, ledReport, callLog, signalled,
                   faults, stopRequested, cyclesOdd, toggleFailed>>

\* any task may call start() or stop() at any time, and signals may arrive
\* between any two steps
NextLock ==
    \/ \E t \in Tasks : LockStart(t)
    \/ \E t \in Tasks : LockStop(t)
    \/ SignalHandler

SpecLock == Init /\ [][NextLock]_vars

FairSpec == Spec /\ \A t \in Tasks : SF_vars(Progress(t))

\* ------------------------------------------------ claims: state machine
LastEv == hist[Len(hist)]

LastOut == outs[Len(outs)]

\* C1: a release processed while PRESSED returns exactly one toggle, no
\* other sample returns a toggle, and the toggles returned so far never
\* outnumber the accepted IDLE -> PRESSED presses.
C1_ToggleOnlyOnReleaseFromPressed ==
    /\ hist # <<>> =>
          Count(LastOut, "toggle") =
              IF LastEv.type = "release" /\ prevSm.state = "pressed" THEN 1 ELSE 0
    /\ TotalCount(outs, "toggle") <= accepted

C1_Witness ==
    /\ hist # <<>>
    /\ LastEv.type = "release"
    /\ prevSm.state = "pressed"
    /\ TotalCount(outs, "toggle") = 2
    /\ accepted = 2

\* C2: a press less than the debounce time after last_press_time is dropped,
\* IDLE or PRESSED: no actions, machine unchanged; a release is never
\* dropped by the debounce; press@0, press@5, release@50 from the initial
\* machine gives one toggle in total.
C2_DebouncedPressDropped ==
    /\ (/\ hist # <<>>
        /\ LastEv.type = "press"
        /\ prevSm.last # NoTime
        /\ LastEv.ts - prevSm.last < DebounceTimeMs)
           => (LastOut = <<>> /\ Sm = prevSm)
    /\ (/\ hist # <<>>
        /\ LastEv.type = "release"
        /\ prevSm.state = "pressed")
           => (Sm.state = "idle" /\ Has(LastOut, "toggle"))
    /\ hist = <<Event("press", 0), Event("press", 5), Event("release", 50)>>
           => TotalCount(outs, "toggle") = 1

C2_Witness ==
    /\ hist = <<Event("press", 0), Event("press", 5), Event("release", 50)>>
    /\ outs[2] = <<>>

EventsStep(t) == pc[t] = "s_events" /\ pc'[t] = "s_led"

\* coroutine t runs the _update_led_feedback of a poll iteration in this step
LedStep(t) == pc[t] = "s_led" /\ pc'[t] = "s_sleep"

\* the LED report that shows mute status m
ReportFor(m) == BuildReport("report_id_0", LEDColorValue(ColorFor(m)))

StartsActive == {t \in Tasks : pc[t] \in StartPcs}

\* C4: with the audio collaborator reachable, an iteration that processes a
\* release while PRESSED reads is_muted, requests the negated value and then
\* syncs the LED, in that order: the mute status is inverted and the LED
\* shows its colour; an iteration without such a release leaves the mute
\* status alone; so, as long as nothing else touches the mute status, it is
\* muted exactly after an odd number of press/release cycles.
C4_CycleInvertsMute ==
    /\ [][\A t \in Tasks : EventsStep(t) =>
            IF /\ current_state = "pressed"
               /\ current_state' = "idle"
               /\ AudioOk
               /\ ~Has(callLog', "set_mute_failed")
            THEN /\ muted' = ~muted
                 /\ ledReport' = ReportFor(muted')
                 /\ callLog' = <<"read_events", "process_event", "is_muted",
                                 SetMuteEntry(~muted), "led_sync",
                                 "led.is_muted", "led_write">>
            ELSE muted' = muted]_vars
    /\ [](faults = 0 /\ ~audioClosed => muted = cyclesOdd)

\* C5: every poll iteration goes from event processing to the LED sync; with
\* the device connected the sync is attempted, and when is_muted and the LED
\* write succeed the LED shows the colour of the current mute status.
C5_LedSyncEveryIteration ==
    [][\A t \in Tasks :
          /\ (pc[t] = "s_events" /\ pc'[t] # "s_events") => pc'[t] = "s_led"
          /\ LedStep(t) =>
                /\ IsConnected(device) => Has(callLog', "led_sync")
                /\ Has(callLog', "led_write") => ledReport' = ReportFor(muted')]_vars

\* the LED follows a mute status that was changed from outside
C5_Witness ==
    /\ pc[1] = "s_sleep"
    /\ callLog = <<"led_sync", "led.is_muted", "led_write">>
    /\ muted
    /\ ~cyclesOdd
    /\ ledReport = ReportFor(TRUE)

\* C6: a start() that passed the guard returns only with running false, the
\* device closed, the audio collaborator closed and the state machine reset.
C6_StartEndsCleanedUp ==
    [][\A t \in Tasks :
          (pc[t] \in StartPcs /\ pc'[t] = "idle") =>
              /\ ~running'
              /\ ~IsConnected(device')
              /\ audioClosed'
              /\ Sm' = InitialMachine]_vars

\* start() returned after a signal ended a poll loop that had seen a press
C6_Witness ==
    /\ \A t \in Tasks : pc[t] = "idle"
    /\ callLog = <<"cleanup">>
    /\ shutdown_event
    /\ cyclesOdd
    /\ device = "closed"

\* C7: once the signal handler has run while running was true, every start()
\* in progress eventually returns.
C7_SignalEndsStart == signalled ~> (StartsActive = {})

\* C8: once stop() has passed its guard, every start() in progress
\* eventually returns.
C8_StopEndsStart == stopRequested ~> (StartsActive = {})

\* C9: at most one start() is past the already-running guard at any time.
C9_OneStartAtATime == Cardinality(StartsActive) <= 1

\* C10: nothing that happens inside a poll iteration ends the loop or changes
\* the running flag: the loop is left only from its head, with running false
\* or the shutdown event set, or by cancellation of the sleeping task.
C10_FailuresStayInLoop ==
    [][\A t \in Tasks :
          /\ (pc[t] \in {"s_events", "s_led"} /\ pc'[t] # pc[t]) =>
                (pc'[t] \in LoopPcs /\ running' = running)
          /\ (pc[t] \in LoopPcs /\ pc'[t] \notin LoopPcs) =>
                \/ pc[t] = "s_loophead" /\ (~running \/ shutdown_event)
                \/ pc[t] = "s_sleep" /\ calls' = calls + 1]_vars

\* a further iteration has begun after one in which the LED write failed
\* and one in which the audio collaborator failed
C10_Witness ==
    /\ pc[1] = "s_events"
    /\ running
    /\ ~shutdown_event
    /\ device = "dead"
    /\ current_state = "pressed"
    /\ Has(callLog, "led_write_failed")

\* C11: when is_muted fails while a toggle is dispatched, set_mute is not
\* requested for that toggle and the mute status is unchanged; the failure
\* stays inside the iteration (the coroutine goes on to the LED sync, the
\* daemon keeps running); a toggle dispatched later, with the collaborator
\* reachable again and set_mute accepted, inverts the mute status.
C11_IsMutedFailureSkipsToggle ==
    [][\A t \in Tasks : EventsStep(t) =>
         /\ Has(callLog', "is_muted_failed") =>
               /\ muted' = muted
               /\ ~Has(callLog', SetMuteEntry(TRUE))
               /\ ~Has(callLog', SetMuteEntry(FALSE))
               /\ ~Has(callLog', "set_mute_failed")
               /\ running' = running
               /\ pc'[t] \in LoopPcs
         /\ (toggleFailed /\ Has(callLog', "is_muted")
                 /\ ~Has(callLog', "set_mute_failed")) =>
               /\ muted' = ~muted
               /\ Has(callLog', SetMuteEntry(~muted))]_vars

\* a toggle failed on is_muted, the collaborator recovered, and a later
\* toggle has just gone through
C11_Witness ==
    /\ toggleFailed
    /\ pc[1] = "s_led"
    /\ Has(callLog, "is_muted")
    /\ Has(callLog, SetMuteEntry(muted))

\* the _connect_device of this step found no device or failed both ways
ConnectFails(t) ==
    /\ pc[t] = "s_connect"
    /\ Has(callLog', "discover")
    /\ ~Has(callLog', "connect_by_vid_pid")
    /\ ~Has(callLog', "connect")

\* C12: when discovery finds no device, or both connection strategies fail,
\* start() goes to its exception handler and from there only to its finally
\* block and out: it never enters the poll loop (no sample is read, no toggle
\* is dispatched), cleanup runs, and the running flag is false at the return.
C12_ConnectFailureSkipsLoop ==
    [][\A t \in Tasks :
         /\ ConnectFails(t) =>
               /\ pc'[t] = "s_except"
               /\ ~IsConnected(device')
         /\ pc[t] = "s_except" =>
               /\ pc'[t] \in {"s_except", "s_finally"}
               /\ ~Has(callLog', "read_events")
               /\ ~Has(callLog', "process_event")
               /\ ~Has(callLog', "is_muted")
         /\ (pc[t] = "s_finally" /\ pc'[t] # "s_finally") =>
               /\ pc'[t] = "idle"
               /\ Has(callLog', "cleanup")
               /\ ~running'
               /\ audioClosed'
               /\ ~IsConnected(device')]_vars

\* a start() whose connection failed has returned: cleaned up, not running,
\* the device never opened
C12_Witness ==
    /\ pc[1] = "idle"
    /\ calls = 1
    /\ callLog = <<"cleanup">>
    /\ device = "none"
    /\ audioClosed
    /\ ~running

\* C13: when the device is disconnected while start() is in the poll loop
\* and the button is discoverable again, the daemon eventually holds a
\* working connection again, unless start() has left the poll loop.
C13_ReconnectsInLoop ==
    (pc[1] \in LoopPcs /\ device \in {"dead", "closed"} /\ plugged)
        ~> (device = "live" \/ pc[1] \notin LoopPcs)

\* C14: in a poll iteration in which the device reports not connected, the
\* event step reads no sample, does not invoke the state machine and
\* requests no set_mute, and the LED step writes no report: neither step
\* calls a collaborator, the mute status, the machine and the LED stay as
\* they are, and the iteration ends at its sleep with the daemon running.
C14_DisconnectedIterationIdle ==
    [][\A t \in Tasks :
         /\ (EventsStep(t) /\ ~IsConnected(device)) =>
               /\ ~Has(callLog', "read_events")
               /\ ~Has(callLog', "read_events_failed")
               /\ ~Has(callLog', "process_event")
               /\ ~Has(callLog', SetMuteEntry(TRUE))
               /\ ~Has(callLog', SetMuteEntry(FALSE))
               /\ ~Has(callLog', "led_write")
               /\ UNCHANGED <<smVars, muted, ledReport, running>>
         /\ (LedStep(t) /\ ~IsConnected(device)) =>
               /\ ~Has(callLog', "led_write")
               /\ ~Has(callLog', "led_write_failed")
               /\ UNCHANGED <<smVars, muted, ledReport, running>>]_vars

\* the device object was disconnected under the running loop and an
\* iteration has gone through both steps without calling anything
C14_Witness ==
    /\ pc[1] = "s_sleep"
    /\ device = "closed"
    /\ callLog = <<>>
    /\ running

\* the LED controller was asked to sync or to force a colour in this step
LedCall == callLog' # <<>> /\ Head(callLog') \in {"led_sync", "led_force"}

\* C15: update_led_to_mute_status and force_led_color on a device that is
\* not connected are silent no-ops: set_led_color is not called (neither a
\* write nor a failed write is logged) and the LED keeps what it showed.
C15_LedNoOpWhenDisconnected ==
    [][(LedCall /\ ~IsConnected(device)) =>
           /\ ~Has(callLog', "led_write")
           /\ ~Has(callLog', "led_write_failed")
           /\ ~Has(callLog', "led.is_muted")
           /\ ledReport' = ledReport]_vars

\* the LED showed unmuted, the device was disconnected, the status became
\* muted and a sync has left the LED as it was
C15_Witness ==
    /\ device = "closed"
    /\ callLog = <<"led_sync">>
    /\ muted
    /\ ledReport = ReportFor(FALSE)

\* C20: a read yields at most one sample; a report shorter than 4 bytes
\* (nothing read, a timeout) yields none; the sample of a report of at least
\* 4 bytes is a press when byte index 3 is nonzero and a release when it is
\* zero.
C20_SampleFromReport ==
    /\ Len(seen.samples) <= 1
    /\ Len(seen.readReport) < 4 => seen.samples = <<>>
    /\ seen.samples # <<>> =>
          seen.samples[1] = IF seen.readReport[4] # 0 THEN "press" ELSE "release"

\* task t calls start() in this step
StartCalled(t) ==
    /\ pc[t] = "idle"
    /\ calls' = calls + 1
    /\ callLog' \in {<<"start">>, <<"start_rejected">>}
    /\ \A u \in Tasks \ {t} : pc'[u] = pc[u]

\* C16: start() called while the running flag is true returns at once and
\* without effect: no connection, the shutdown event not cleared, no startup
\* pattern, no second poll loop, no cleanup, the running flag still true.
C16_StartWhileRunningNoOp ==
    [][\A t \in Tasks : (StartCalled(t) /\ running) =>
          /\ callLog' = <<"start_rejected">>
          /\ pc' = pc
          /\ running'
          /\ UNCHANGED <<shutdown_event, device, device_connected,
                         led_controller, ledReport, audioClosed, smVars,
                         muted, patIdx, signalled>>]_vars

\* a second start() has just been turned away while the first one polls
\* with the shutdown event set
C16_Witness ==
    /\ callLog = <<"start_rejected">>
    /\ running
    /\ shutdown_event
    /\ \E t \in Tasks : pc[t] \in LoopPcs

\* reset() is called in this step
ResetCalled == hist # <<>> /\ hist' = <<>>

\* C17: reset() leaves the machine IDLE with press_count 0 and no
\* last_press_time, whatever state it was in, the state left by a failed
\* process_event call included.
C17_ResetYieldsInitial ==
    [][ResetCalled =>
          /\ current_state' = "idle"
          /\ press_count' = 0
          /\ last_press_time' = NoTime]_vars

\* reset() was called on a machine whose last process_event call failed
C17_Witness ==
    /\ hist = <<>>
    /\ smOutcome = "raised"
    /\ Sm = InitialMachine
    /\ now > 0

\* C18: process_event never lets an error reach its caller; a call in which
\* handling fails returns no action and leaves the machine reset; the
\* machine is not stuck: a release while PRESSED still yields a toggle.
C18_NoErrorPropagates ==
    /\ smOutcome # "raised"
    /\ (hist # <<>> /\ smOutcome = "reset") =>
          (Sm = InitialMachine /\ LastOut = <<>>)
    /\ (hist # <<>> /\ LastEv.type = "release" /\ prevSm.state = "pressed") =>
          Has(LastOut, "toggle")

\* C19: a timeout sample returns no action and leaves current_state alone;
\* while IDLE it zeroes press_count and forgets last_press_time when it
\* comes more than double_tap_timeout_ms after the recorded press, and
\* changes nothing when no press is recorded or when it comes at or within
\* the window.
C19_TimeoutSamples ==
    (hist # <<>> /\ LastEv.type = "timeout") =>
        /\ LastOut = <<>>
        /\ current_state = prevSm.state
        /\ prevSm.state = "idle" =>
              IF /\ prevSm.last # NoTime
                 /\ LastEv.ts - prevSm.last > DoubleTapTimeoutMs
              THEN press_count = 0 /\ last_press_time = NoTime
              ELSE Sm = prevSm

\* a timeout 450 ms after a single press has cleared the count
C19_Witness ==
    /\ hist # <<>>
    /\ LastEv = Event("timeout", 450)
    /\ prevSm = Machine("idle", 1, 0)
    /\ Sm = InitialMachine

\* ------------------------------------------------- claims: hid/device.py
\* a method of the MuteMeDevice is called in this step
DeviceCall ==
    <<seen.lastOp, seen.hidLog, seen.opResult, seen.readReport, seen.samples>>'
        # <<seen.lastOp, seen.hidLog, seen.opResult, seen.readReport, seen.samples>>

\* C21: a call made while the device is not connected issues nothing on the
\* hid handle: read, write and set_led_color raise DeviceError, read_events
\* returns no sample, disconnect does nothing; so after a disconnect() no
\* I/O reaches the handle it closed.
C21_NoHandleIoWhenDisconnected ==
    [][(DeviceCall /\ ~IsConnected(device) /\ seen'.lastOp.op # "connect") =>
          /\ seen'.hidLog = <<>>
          /\ seen'.lastOp.op \in {"read", "write", "set_led_color"} =>
                seen'.opResult = "DeviceError"
          /\ seen'.lastOp.op = "read_events" =>
                (seen'.samples = <<>> /\ seen'.opResult = "returned")
          /\ ~IsConnected(device')]_vars

\* write() was called on a device whose handle had been closed
C21_Witness ==
    /\ device = "closed"
    /\ seen.handleCloses = 1
    /\ seen.lastOp.op = "write"
    /\ seen.opResult = "DeviceError"
    /\ seen.hidLog = <<>>

\* C22: disconnect() never raises and leaves the device not connected, also
\* when the handle's close() fails; the handle is closed at most once, and a
\* disconnect() on a device that is not connected does nothing.
C22_DisconnectIdempotent ==
    [][(DeviceCall /\ seen'.lastOp.op = "disconnect") =>
          /\ seen'.opResult = "returned"
          /\ ~IsConnected(device')
          /\ seen'.handleCloses <= 1
          /\ ~IsConnected(device) =>
                (seen'.hidLog = <<>> /\ device' = device
                    /\ seen'.handleCloses = seen.handleCloses)]_vars

\* disconnect() has returned although the handle's close() raised
C22_Witness ==
    /\ seen.lastOp.op = "disconnect"
    /\ seen.hidLog = <<HidCall("close_failed", <<>>)>>
    /\ seen.opResult = "returned"
    /\ device = "closed"
    /\ seen.handleCloses = 1


\* C23: a set_led_color call that writes one report puts into it the base
\* colour value for normal and for a brightness it does not know, the base
\* plus 16 for dim, plus 32 for fast_pulse and plus 48 for slow_pulse, whatever
\* the report format, and the code fits in one byte
C23_ColourCodeByBrightness ==
    (/\ seen.lastOp.op = "set_led_color"
     /\ seen.lastOp.brightness # "flashing"
     /\ seen.opResult = "returned")
    => LET bytes == seen.hidLog[1].bytes
           code == IF Len(bytes) = 1 THEN bytes[1] ELSE bytes[2]
           base == LEDColorValue(seen.lastOp.color)
       IN  /\ Len(seen.hidLog) = 1
           /\ code = base + (CASE seen.lastOp.brightness = "dim" -> 16
                               [] seen.lastOp.brightness = "fast_pulse" -> 32
                               [] seen.lastOp.brightness = "slow_pulse" -> 48
                               [] OTHER -> 0)
           /\ code \in 0..255

\* WHITE at slow_pulse has been written in the padded layout: code 55
C23_Witness ==
    /\ seen.lastOp = Op("set_led_color", "WHITE", FALSE, "padded", "slow_pulse")
    /\ seen.opResult = "returned"
    /\ seen.hidLog = <<HidCall("write", <<1, 55, 0, 0, 0, 0, 0, 0>>)>>

C25_FlashingSequence ==
    (/\ seen.lastOp.op = "set_led_color"
     /\ seen.lastOp.brightness = "flashing"
     /\ seen.opResult = "returned")
    => LET on == <<0, LEDColorValue(seen.lastOp.color)>>
           off == <<0, 0>>
       IN  /\ Len(seen.hidLog) = 2 * 20 + 1
           /\ \A i \in 1..Len(seen.hidLog) :
                 /\ seen.hidLog[i].call = IF seen.lastOp.feature
                                      THEN "send_feature_report" ELSE "write"
                 /\ seen.hidLog[i].bytes = IF i % 2 = 1 THEN on ELSE off
           /\ ledReport = on

\* a flashing call for RED has returned and the LED shows RED
C25_Witness ==
    /\ seen.lastOp = Op("set_led_color", "RED", FALSE, "report_id_0", "flashing")
    /\ seen.opResult = "returned"
    /\ Len(seen.hidLog) = 41
    /\ ledReport = <<0, 1>>
    /\ device = "live"

\* C26: when the write of a frame fails during a flashing sequence the
\* remaining frames, the final write of the colour included, are still
\* attempted, and the failures are reported after the sequence has ended
C26_FlashingToleratesFailedFrame ==
    (/\ seen.lastOp.op = "set_led_color"
     /\ seen.lastOp.brightness = "flashing"
     /\ seen.hidLog # <<>>)
    => Len(seen.hidLog) = 2 * FlashCycles + 1


\* C27: _connect_device picks the first discovered device with the configured
\* vendor and product id, or the first discovered device when none has them;
\* it calls connect_by_vid_pid first and connect, with the path of the same
\* device, only when that failed; when both fail it raises one DeviceError
\* that carries both messages
C27_SelectsAndFallsBack ==
    (seen.lastOp.op = "_connect_device" /\ seen.found # <<>>)
    => LET M == {i \in 1..Len(seen.found) : /\ seen.found[i].vendor_id = seen.lastOp.vid
                                       /\ seen.found[i].product_id = seen.lastOp.pid}
           k == IF M = {} THEN 1 ELSE CHOOSE i \in M : \A j \in M : i <= j
           byIds == HidCall("connect_by_vid_pid",
                            <<seen.found[k].vendor_id, seen.found[k].product_id>>)
           byPath == HidCall("connect", <<seen.found[k].path>>)
       IN  /\ seen.hidLog = IF seen.lastOp.idsOk THEN <<byIds>> ELSE <<byIds, byPath>>
           /\ (seen.lastOp.idsOk \/ seen.lastOp.pathOk)
                  => (seen.opResult = "returned" /\ device = "live"
                      /\ seen.raisedMsgs = {})
           /\ (~seen.lastOp.idsOk /\ ~seen.lastOp.pathOk)
                  => (/\ seen.opResult = "DeviceError"
                      /\ seen.raisedMsgs = {"VID/PID method", "Path method"}
                      /\ ~IsConnected(device))

\* no discovered device has the configured ids, the first one was taken, its
\* ids failed and its path connected
C27_Witness ==
    /\ seen.lastOp = [op |-> "_connect_device", vid |-> 8352, pid |-> 17114,
                 idsOk |-> FALSE, pathOk |-> TRUE]
    /\ Len(seen.found) = 2
    /\ seen.found[1].vendor_id = 13827
    /\ seen.hidLog = <<HidCall("connect_by_vid_pid", <<13827, 1>>),
                  HidCall("connect", <<seen.found[1].path>>)>>
    /\ device = "live"

\* C28: discover_devices returns exactly the enumerated devices whose vendor
\* and product id are a pair of one of the two families, in the order of the
\* enumeration; one family's vendor id with the other's product id is left
\* out, and nothing found is an empty list, not an error
C28_DiscoverFiltersAllowList ==
    (seen.lastOp.op = "discover_devices" /\ seen.opResult = "returned")
    => LET e == seen.lastOp.enumerated
           AllowList == {<<8352, 17114>>, <<8352, 17115>>, <<13827, 1>>,
                         <<13827, 2>>, <<13827, 3>>, <<13827, 4>>}
           Allowed(d) == <<d.vendor_id, d.product_id>> \in AllowList
       IN  /\ \A i \in 1..Len(seen.found) :
                 /\ Allowed(seen.found[i])
                 /\ seen.found[i].path \in 1..Len(e)
                 /\ e[seen.found[i].path] = seen.found[i]
           /\ \A i, j \in 1..Len(seen.found) :
                 i < j => seen.found[i].path < seen.found[j].path
           /\ \A i \in 1..Len(e) :
                 Allowed(e[i]) => \E j \in 1..Len(seen.found) : seen.found[j] = e[i]
           /\ seen.raisedMsgs = {}

\* a mini vendor id with a main product id came first in the enumeration and
\* is left out; the main button after it is returned
C28_Witness ==
    /\ seen.lastOp.op = "discover_devices"
    /\ seen.opResult = "returned"
    /\ Len(seen.lastOp.enumerated) = 2
    /\ seen.lastOp.enumerated[1].vendor_id = 13827
    /\ seen.lastOp.enumerated[1].product_id = 17114
    /\ seen.found = <<[vendor_id |-> 8352, product_id |-> 17114, path |-> 2]>>


\* C29: _handle_action does nothing for an action other than toggle,
\* double_tap included; a double tap, two press and release cycles that end
\* in the double_tap action, dispatches one toggle at each release and none
\* at a press, two in all, and leaves the mute status as it was before
C29_DoubleTapTogglesTwice ==
    LET n == Len(hist) IN
    (/\ n >= 4
     /\ Has(outs[n], "double_tap")
     /\ <<hist[n - 3].type, hist[n - 2].type, hist[n - 1].type, hist[n].type>>
            = <<"press", "release", "press", "release">>)
    => /\ seen.muteLog[n - 2] = ~seen.muteLog[n - 3]
       /\ seen.muteLog[n - 1] = seen.muteLog[n - 2]
       /\ seen.muteLog[n] = ~seen.muteLog[n - 1]
       /\ muted = seen.muteLog[n - 3]
       /\ n > 4 => seen.muteLog[n - 3] = seen.muteLog[n - 4]
       /\ Count(callLog, "is_muted") = 1
       /\ Count(callLog, SetMuteEntry(muted)) = 1
       /\ Count(callLog, SetMuteEntry(~muted)) = 0

\* the second release of a double tap has been dispatched: the microphone,
\* muted before the tap and unmuted by its first release, is muted again
C29_Witness ==
    /\ Len(hist) = 4
    /\ outs[4] = <<"toggle", "double_tap">>
    /\ outs[2] = <<"toggle">>
    /\ seen.muteLog = <<TRUE, FALSE, FALSE, TRUE>>
    /\ muted
    /\ hist[3].ts - hist[1].ts = 150


\* C30: cleanup() returns in every state of the device (never connected,
\* open, unplugged, closed by an earlier cleanup) and whichever of its steps
\* fail; it attempts the device close (when there is a device object), the
\* audio close and the reset of the state machine each time, and a step that
\* did not fail has taken effect
C30_CleanupAttemptsEveryStep ==
    [][(/\ seen'.lastOp.op = "cleanup"
        /\ plugged' = plugged
        /\ Len(hist') <= Len(hist))
       => /\ seen'.opResult = "returned"
          /\ Len(callLog') = IF device = "none" THEN 2 ELSE 3
          /\ seen'.lastOp.dev = device
          /\ device # "none"
                 => callLog'[1] \in {"device_close", "device_close_failed"}
          /\ callLog'[Len(callLog') - 1]
                 \in {"audio_close", "audio_close_failed"}
          /\ callLog'[Len(callLog')] \in {"reset", "reset_failed"}
          /\ ~seen'.lastOp.devRaises => ~IsConnected(device')
          /\ ~seen'.lastOp.audioRaises => audioClosed'
          /\ ~seen'.lastOp.resetRaises
                 => (/\ current_state' = "idle"
                     /\ press_count' = 0
                     /\ last_press_time' = NoTime)]_vars

\* cleanup() has returned with an open device whose disconnect() raised and
\* a backend whose close() raised: the state machine is reset all the same
C30_Witness ==
    /\ seen.lastOp = [op |-> "cleanup", dev |-> "live", devRaises |-> TRUE,
                 audioRaises |-> TRUE, resetRaises |-> FALSE]
    /\ callLog = <<"device_close_failed", "audio_close_failed", "reset">>
    /\ seen.opResult = "returned"
    /\ Sm = InitialMachine
    /\ prevSm = InitialMachine
    /\ ~audioClosed
    /\ device = "live"


\* ------------------------------------------- claims: state machine, again
\* C31: an accepted press at interval d after last_press_time increments
\* press_count when a prior press exists and d <= double_tap_timeout_ms and
\* sets it to 1 otherwise, sets last_press_time to the press time, returns
\* no action and leaves the machine PRESSED, IDLE or PRESSED alike.
C31_PressUpdatesCount ==
    (/\ hist # <<>>
     /\ LastEv.type = "press"
     /\ ~(prevSm.last # NoTime /\ LastEv.ts - prevSm.last < DebounceTimeMs))
    =>
        /\ press_count =
              IF /\ prevSm.last # NoTime
                 /\ LastEv.ts - prevSm.last <= DoubleTapTimeoutMs
              THEN prevSm.count + 1 ELSE 1
        /\ last_press_time = LastEv.ts
        /\ LastOut = <<>>
        /\ current_state = "pressed"

\* C32: with a positive debounce time, a sample processed a second time
\* right after the first (same kind, same timestamp) leaves current_state,
\* press_count and last_press_time as the first call left them and returns
\* no actions.
C32_SameSampleTwice ==
    (/\ DebounceTimeMs > 0
     /\ Len(hist) >= 2
     /\ hist[Len(hist) - 1] = LastEv)
    => (Sm = prevSm /\ LastOut = <<>>)

C32_Witness ==
    /\ Len(hist) = 4
    /\ hist[1] = hist[2] /\ hist[1].type = "press"
    /\ hist[3] = hist[4] /\ hist[3].type = "release"
    /\ outs[3] = <<"toggle">>
    /\ Sm = Machine("idle", 1, hist[1].ts)

C34_StartupPatternThenSync ==
    [][\A t \in Tasks :
          /\ pc'[t] = "s_ledctl" /\ pc[t] # "s_ledctl"
                => pc[t] \in {"s_connect", "s_connsleep"}
          /\ pc'[t] = "s_pattern" /\ pc[t] # "s_pattern"
                => pc[t] = "s_ledctl"
          /\ pc'[t] = "s_pat_on" /\ pc[t] = "s_pattern"
                => IsConnected(device)
          /\ pc'[t] = "s_initled" /\ pc[t] # "s_initled"
                => pc[t] \in {"s_pattern", "s_pat_endsleep"}
          /\ pc'[t] = "s_loophead" /\ pc[t] \notin {"s_loophead", "s_sleep"}
                => pc[t] = "s_initled"
          /\ pc'[t] = "s_events" /\ pc[t] # "s_events"
                => pc[t] = "s_loophead"
          /\ (/\ pc[t] \in {"s_pat_on", "s_pat_off"}
              /\ pc'[t] # pc[t] \/ patIdx'[t] # patIdx[t]
              /\ Has(callLog', "led_write_failed"))
                => pc'[t] \in {"s_pat_on", "s_pat_endsleep"}
          /\ (/\ pc[t] = "s_initled"
              /\ pc'[t] = "s_loophead"
              /\ Has(callLog', "led_write"))
                => ledReport' = ReportFor(muted)
      ]_vars

\* the write of the pattern's last colour failed and the pattern ended as
\* it does after a good one
C34_Witness ==
    /\ pc[1] = "s_pat_endsleep"
    /\ callLog = <<"led_write_failed">>
    /\ running

\* C35: whenever start() enters the poll loop the state machine is IDLE
\* with press_count 0 and no last_press_time, whatever samples it had
\* processed before start() was called.
C35_MachineResetAtStartup ==
    [][\A t \in Tasks :
          (pc[t] = "s_initled" /\ pc'[t] = "s_loophead")
              => Sm = InitialMachine]_vars

\* C37: press_count is never negative, it is 0 exactly when last_press_time
\* is None, and a PRESSED machine has press_count >= 1 and a
\* last_press_time.
C37_CountAndLastPressAgree ==
    /\ press_count >= 0
    /\ press_count = 0 <=> last_press_time = NoTime
    /\ current_state = "pressed" =>
           (press_count >= 1 /\ last_press_time # NoTime)

\* a timeout sample has cleared the count of an IDLE machine that had
\* counted a press
C37_Witness ==
    /\ hist # <<>>
    /\ LastEv.type = "timeout"
    /\ prevSm.state = "idle"
    /\ prevSm.count = 1
    /\ Sm = InitialMachine

\* C38: a stop() ends only the run that was active when it was issued: when
\* that run has ended and a new start() has begun before the grace period
\* of the stop() is over, the stop() leaves the running flag of the new run
\* alone.
C38_StopEndsOnlyItsRun ==
    [][\A t \in Tasks :
          (/\ pc[t] = "p_sleep"
           /\ pc'[t] = "idle"
           /\ ~stopRequested
           /\ StartsActive # {})
              => running' = running]_vars

C36_FlagsGuarded ==
    [][/\ running' # running
            => \E t \in Tasks : seen.lock = t /\ pc'[t] # pc[t]
       /\ \A t \in Tasks :
            (pc[t] = "k_l_read" /\ pc'[t] # pc[t]) => seen.lock = t
       /\ shutdown_event' # shutdown_event
            => \/ pc' = pc /\ shutdown_event'
               \/ \E t \in Tasks : pc[t] = "k_p_set" /\ pc'[t] # pc[t]
                                      /\ shutdown_event'
               \/ \E t \in Tasks : pc[t] = "k_s_clear" /\ pc'[t] # pc[t]
                                      /\ ~shutdown_event'
       /\ signalled' => shutdown_event'
      ]_vars

\* C39: the running lock is never held by a coroutine that sleeps, and
\* whenever a coroutine stands at an acquisition of the lock the lock is
\* free: nobody ever waits for it, so nobody waits for ever.
C39_LockNeverBlocks ==
    \A t \in Tasks :
        /\ seen.lock = t =>
               pc[t] \in {"k_s_guard", "k_s_clear", "k_l_read", "k_f_write",
                          "k_p_guard", "k_p_fwrite"}
        /\ pc[t] \in {"k_s_acq", "k_l_acq", "k_f_acq", "k_p_acq", "k_p_facq"}
               => seen.lock = 0

\* a poll loop holds the lock while a stop() sleeps through its grace
\* period
C39_Witness ==
    /\ seen.lock = 1
    /\ pc[1] = "k_l_read"
    /\ pc[2] = "k_p_sleep"
    /\ shutdown_event
====
